---------------------------- MODULE Spec2Model ----------------------------
(***************************************************************************)
(* Model of package-manager-mcp: an MCP server that maps five tools        *)
(* (install_package, install_package_with_version, refresh_repositories,   *)
(* list_installed_packages, search_package) onto apk / apt subprocesses.   *)
(*                                                                         *)
(* Text is modelled as a sequence of code points (Rust `String`) or of     *)
(* bytes (process output), so that prefix matching, line splitting,        *)
(* trimming, sorting and the whitelist are computed as the code computes   *)
(* them.  Fixed words of a command line and of a message are TLA+ strings. *)
(***************************************************************************)
EXTENDS Integers, Sequences, FiniteSets, TLC

VARIABLES
    alpine_release,   \* /etc/alpine-release exists
    debian_version,   \* /etc/debian_version exists
    server,           \* main(): "starting", "serving" or "fatal"
    backend,          \* the backend held by PackageManagerHandler
    clients,          \* the request slots that carry requests in this run
    scenario,         \* the load of this run: "single", "repeat", "concurrent"
                      \* or "steady"
    pc,               \* per request: position inside call_tool / the worker
    request,          \* per request: CallToolRequestParam {name, arguments}
    options,          \* per request: the *Options struct handed to the backend
    phase,            \* per request: which Command::output() call is in flight
    cmds,             \* per request: every Command::output() call made so far
    found_versions,   \* per request: resolver local `found_versions`
    version_found,    \* per request: resolver local `version_found`
    ret,              \* per request: Result returned by the backend call
    tasks,            \* per request: blocking tasks handed to spawn_blocking
    joined,           \* per request: outcome of awaiting the blocking task
    resp,             \* per request: what call_tool returned
    previous          \* per slot: the request served before and its response
                      \* (history kept for the "repeat" load only)

vars == <<alpine_release, debian_version, server, backend, clients, scenario,
          pc, request, options, phase, cmds, found_versions, version_found, ret,
          tasks, joined, resp, previous>>

---------------------------------------------------------------------------
(* Option<T> and Result<T, E> *)

None == <<>>

Some(x) == <<x>>

IsSome(o) == Len(o) = 1

Unwrap(o) == o[1]

Ok(v) == [ok |-> TRUE, val |-> v]

Err(e) == [ok |-> FALSE, err |-> e]

---------------------------------------------------------------------------
(* Text helpers of the Rust standard library, on sequences of code points *)

\* str::starts_with
starts_with(s, p) == Len(p) <= Len(s) /\ SubSeq(s, 1, Len(p)) = p

\* str::strip_prefix: Some(rest) when s begins with p, None otherwise
strip_prefix(s, p) ==
    IF starts_with(s, p) THEN Some(SubSeq(s, Len(p) + 1, Len(s))) ELSE None

\* char::is_whitespace, for code points below 256
is_whitespace(c) == c \in {9, 10, 11, 12, 13, 32, 133, 160}

\* char::is_alphanumeric (Alphabetic or Numeric), for code points below 256
is_alphanumeric(c) ==
    \/ c \in 48..57 \/ c \in 65..90 \/ c \in 97..122
    \/ c \in {170, 181, 186} \/ c \in 192..214 \/ c \in 216..246 \/ c \in 248..255
    \/ c \in {178, 179, 185, 188, 189, 190}

RECURSIVE trim_start(_)
trim_start(s) ==
    IF s # <<>> /\ is_whitespace(Head(s)) THEN trim_start(Tail(s)) ELSE s

RECURSIVE trim_end(_)
trim_end(s) ==
    IF s # <<>> /\ is_whitespace(s[Len(s)])
    THEN trim_end(SubSeq(s, 1, Len(s) - 1))
    ELSE s

\* str::trim
trim(s) == trim_end(trim_start(s))

\* one line of str::lines: the "\n" terminator is cut, then a "\r" before it
strip_line_end(piece) ==
    IF piece # <<>> /\ piece[Len(piece)] = 13
    THEN SubSeq(piece, 1, Len(piece) - 1)
    ELSE piece

RECURSIVE lines_from(_, _, _)
lines_from(text, i, cur) ==
    IF i > Len(text)
    THEN IF cur = <<>> THEN <<>> ELSE <<cur>>
    ELSE IF text[i] = 10
         THEN <<strip_line_end(cur)>> \o lines_from(text, i + 1, <<>>)
         ELSE lines_from(text, i + 1, Append(cur, text[i]))

\* str::lines: split at "\n" (or "\r\n"); no empty line after a final "\n"
lines(text) == lines_from(text, 1, <<>>)

RECURSIVE split_from(_, _, _, _)
split_from(text, sep, i, cur) ==
    IF i > Len(text)
    THEN <<cur>>
    ELSE IF text[i] = sep
         THEN <<cur>> \o split_from(text, sep, i + 1, <<>>)
         ELSE split_from(text, sep, i + 1, Append(cur, text[i]))

\* str::split(char): always at least one piece
split(text, sep) == split_from(text, sep, 1, <<>>)

RECURSIVE join(_, _)
\* [String]::join(sep)
join(pieces, sep) ==
    IF pieces = <<>> THEN <<>>
    ELSE IF Len(pieces) = 1 THEN pieces[1]
    ELSE pieces[1] \o sep \o join(Tail(pieces), sep)

\* Vec::contains
contains(v, x) == \E i \in 1..Len(v) : v[i] = x

RECURSIVE str_lt(_, _)
\* String's Ord (`<`): lexicographic by code point, a proper prefix is smaller
str_lt(a, b) ==
    IF b = <<>> THEN FALSE
    ELSE IF a = <<>> THEN TRUE
    ELSE IF Head(a) # Head(b) THEN Head(a) < Head(b)
    ELSE str_lt(Tail(a), Tail(b))

RECURSIVE sort_insert(_, _)
sort_insert(sorted, x) ==
    IF sorted = <<>> THEN <<x>>
    ELSE IF str_lt(x, Head(sorted)) THEN <<x>> \o sorted
    ELSE <<Head(sorted)>> \o sort_insert(Tail(sorted), x)

RECURSIVE sort(_)
\* Vec<String>::sort: ascending, stable
sort(v) ==
    IF v = <<>> THEN <<>>
    ELSE sort_insert(sort(SubSeq(v, 1, Len(v) - 1)), v[Len(v)])

RECURSIVE dedup(_)
\* Vec::dedup: drops an element equal to the one kept just before it
dedup(v) ==
    IF Len(v) <= 1 THEN v
    ELSE IF v[1] = v[2] THEN dedup(Tail(v))
    ELSE <<v[1]>> \o dedup(Tail(v))

RECURSIVE from_utf8_lossy(_)
\* String::from_utf8_lossy on bytes: ASCII and two-byte sequences decode, any
\* other byte becomes U+FFFD (three- and four-byte forms do not occur in the
\* outputs enumerated below)
from_utf8_lossy(bytes) ==
    IF bytes = <<>> THEN <<>>
    ELSE IF Head(bytes) < 128
         THEN <<Head(bytes)>> \o from_utf8_lossy(Tail(bytes))
    ELSE IF /\ Head(bytes) \in 194..223
            /\ Len(bytes) >= 2
            /\ bytes[2] \in 128..191
         THEN <<(Head(bytes) - 192) * 64 + (bytes[2] - 128)>>
              \o from_utf8_lossy(Tail(Tail(bytes)))
    ELSE <<65533>> \o from_utf8_lossy(Tail(bytes))


---------------------------------------------------------------------------
(* ExecResult, McpError, CallToolResult *)

\* Output.status.code(): Some(code), or None when a signal ended the process
\* ExecResult { stdout, stderr, status } as every backend operation builds it
ExecResultFrom(output) ==
    [stdout |-> IF output.stdout # <<>>
                THEN Some(from_utf8_lossy(output.stdout)) ELSE None,
     stderr |-> IF output.stderr # <<>>
                THEN Some(from_utf8_lossy(output.stderr)) ELSE None,
     status |-> IF IsSome(output.code) THEN Unwrap(output.code) ELSE -1]

\* pieces of a formatted message or of a command-line argument: a fixed word
\* followed by caller/process text
Lit(word) == [lit |-> word, txt |-> <<>>]

Txt(text) == [lit |-> "", txt |-> text]

LitTxt(word, text) == [lit |-> word, txt |-> text]

\* McpError::internal_error(message, data)
internal_error(message, data) ==
    [code |-> "internal_error", message |-> message, data |-> data]

\* McpError::invalid_params(message, data)
invalid_params(message, data) ==
    [code |-> "invalid_params", message |-> message, data |-> data]

\* Ok(CallToolResult::success(vec![Content::text(..)]))
ToolSuccess(content) == [kind |-> "success", is_error |-> FALSE, content |-> content]

\* Ok(CallToolResult::error(vec![Content::text(..)]))
ToolError(content) == [kind |-> "tool_error", is_error |-> TRUE, content |-> content]

\* Err(McpError) returned by call_tool
ToolFailure(error) == [kind |-> "mcp_error", is_error |-> TRUE, error |-> error]

\* `{err:?}` / `{err}` of an error inside a message
Debug(error) == <<Lit("ErrorData(")>> \o error.message \o <<Lit(")")>>

\* the io::Error of a Command that could not be started
IoError == Lit("No such file or directory (os error 2)")

---------------------------------------------------------------------------
(* Text literals (code points) *)

NL == <<10>>

str_hyphen == <<45>>            \* "-"

str_equals == <<61>>            \* "="

str_fetch == <<102, 101, 116, 99, 104, 32>>   \* "fetch "

str_comma_space == <<44, 32>>   \* ", "

str_curl == <<99, 117, 114, 108>>   \* "curl"

str_bad_pkg == <<97, 59, 98>>   \* "a;b"

str_colon_pkg == <<120, 58, 49>>   \* "x:1"

str_v7 == <<55, 46, 56, 56, 46, 49, 45, 114, 49>>   \* "7.88.1-r1"

str_v8 == <<56, 46, 48>>   \* "8.0"

str_bad_ver == <<49, 124, 50>>   \* "1|2"

str_tilde_ver == <<49, 126, 98>>   \* "1~b"

str_repo == <<104, 116, 116, 112, 58, 47, 47, 114>>   \* "http://r"

\* "curl-7.88.1-r1"
line_curl_v7 == str_curl \o str_hyphen \o str_v7

\* "curl-8.0"
line_curl_v8 == str_curl \o str_hyphen \o str_v8

\* "curl-extra-7.0"
line_curl_extra == <<99, 117, 114, 108, 45, 101, 120, 116, 114, 97, 45, 55, 46, 48>>

\* "fetch http://r"
line_fetch == str_fetch \o str_repo

\* "wget-1.0"
line_wget == <<119, 103, 101, 116, 45, 49, 46, 48>>

\* "  " (blank)
line_blank == <<32, 32>>

\* "curl | 7.88.1-r1 | http://r"
madison_v7 == <<99, 117, 114, 108, 32, 124, 32, 55, 46, 56, 56, 46, 49, 45, 114, 49, 32, 124, 32, 104, 116, 116, 112, 58, 47, 47, 114>>

\* "  curl |  8.0 | http://r"
madison_v8 == <<32, 32, 99, 117, 114, 108, 32, 124, 32, 32, 56, 46, 48, 32, 124, 32, 104, 116, 116, 112, 58, 47, 47, 114>>

\* "N: no such package"
madison_note == <<78, 58, 32, 110, 111, 32, 115, 117, 99, 104, 32, 112, 97, 99, 107, 97, 103, 101>>

\* "E: " followed by an invalid UTF-8 byte
bytes_err == <<69, 58, 32, 255>>

\* "ok" and a newline
bytes_ok == <<111, 107, 10>>

str_c == <<99>>   \* "c"

str_one == <<49>>   \* "1"

line_c_one == <<99, 45, 49>>   \* "c-1"

line_c_two == <<99, 45, 50>>   \* "c-2"

line_hyphen_one == <<45, 49>>   \* "-1"

madison_c_one == <<99, 124, 49>>   \* "c|1"

madison_c_two == <<99, 124, 50>>   \* "c|2"


---------------------------------------------------------------------------
(* Bounds and the inputs enumerated *)

\* longest subprocess output, in lines
MaxLines == 2

\* request slots (concurrent call_tool invocations)
Reqs == {1, 2}

SeqsUpTo(S, n) == UNION {[1..k -> S] : k \in 0..n}

RECURSIVE unlines(_)
\* the text a process prints for these lines, each ended by "\n"
unlines(ls) == IF ls = <<>> THEN <<>> ELSE Head(ls) \o NL \o unlines(Tail(ls))

PackageNames == {str_curl, str_bad_pkg, str_colon_pkg}

Versions == {str_v7, str_v8, str_bad_ver, str_tilde_ver}

Queries == {str_curl, str_bad_pkg}

Repositories == {str_repo}

\* serde_json::Value of one argument: missing from the map, a non-string, a string
JAbsent == [t |-> "absent", s |-> <<>>]

JNumber == [t |-> "number", s |-> <<>>]

JString(text) == [t |-> "string", s |-> text]

ArgKeys == {"package_name", "version", "query", "repository"}

JValues(strings) == {JAbsent, JNumber} \cup {JString(x) : x \in strings}

\* an arguments map holding only the given keys
ArgMap(package_name, version, query, repository) ==
    [k \in ArgKeys |->
        CASE k = "package_name" -> package_name
          [] k = "version" -> version
          [] k = "query" -> query
          [] k = "repository" -> repository]

EmptyArgs == ArgMap(JAbsent, JAbsent, JAbsent, JAbsent)

ToolNames ==
    {"install_package", "install_package_with_version", "refresh_repositories",
     "list_installed_packages", "search_package"}

UnknownTool == "remove_package"

\* the CallToolRequestParam values a client sends
Requests ==
    {[name |-> "install_package", arguments |-> Some(ArgMap(p, JAbsent, JAbsent, repo))] :
        p \in JValues({str_curl, str_bad_pkg}), repo \in JValues(Repositories)}
    \cup
    {[name |-> "install_package_with_version",
      arguments |-> Some(ArgMap(p, v, JAbsent, JAbsent))] :
        p \in JValues(PackageNames), v \in JValues(Versions)}
    \cup
    {[name |-> "search_package", arguments |-> Some(ArgMap(JAbsent, JAbsent, q, repo))] :
        q \in JValues(Queries), repo \in JValues(Repositories)}
    \cup
    {[name |-> n, arguments |-> a] :
        n \in ToolNames \cup {UnknownTool}, a \in {None, Some(EmptyArgs)}}

\* exit statuses: two exit codes, and the end by a signal (no code)
ExitCodes == {Some(0), Some(1), None}

\* what `apk search` prints
ApkSearchLines ==
    {line_curl_v7, line_curl_v8, line_curl_extra, line_fetch, line_wget, line_blank}

\* what `apt-cache madison` prints
MadisonLines == {madison_v7, madison_v8, madison_note}

Outputs(stdouts, stderrs) ==
    {[code |-> c, stdout |-> o, stderr |-> e] :
        c \in ExitCodes, o \in stdouts, e \in stderrs}

\* the std::process::Output a started command can end with
OutputsOf(command) ==
    IF command.program = "apk" /\ contains(command.args, Lit("search"))
    THEN Outputs({unlines(ls) : ls \in SeqsUpTo(ApkSearchLines, MaxLines)},
                 {<<>>, bytes_err})
    ELSE IF command.program = "apt-cache" /\ contains(command.args, Lit("madison"))
    THEN Outputs({unlines(ls) : ls \in SeqsUpTo(MadisonLines, MaxLines)},
                 {<<>>, bytes_err})
    ELSE Outputs({<<>>, bytes_ok}, {<<>>, bytes_err})

\* the requests of the "repeat" and "concurrent" loads: one well-formed
\* request for each tool, and the search also within a repository
SmallRequests ==
    {[name |-> "install_package",
      arguments |-> Some(ArgMap(JString(str_curl), JAbsent, JAbsent, JAbsent))],
     [name |-> "install_package_with_version",
      arguments |-> Some(ArgMap(JString(str_curl), JString(str_v8), JAbsent, JAbsent))],
     [name |-> "search_package",
      arguments |-> Some(ArgMap(JAbsent, JAbsent, JString(str_curl), JAbsent))],
     [name |-> "search_package",
      arguments |-> Some(ArgMap(JAbsent, JAbsent, JString(str_curl), JString(str_repo)))],
     [name |-> "list_installed_packages", arguments |-> None],
     [name |-> "refresh_repositories", arguments |-> None]}

SmallOutputs(stdouts) ==
    {[code |-> c, stdout |-> o, stderr |-> <<>>] :
        c \in {Some(0), Some(1)}, o \in stdouts}

\* the outputs of the "repeat" and "concurrent" loads
SmallOutputsOf(command) ==
    IF command.program = "apk" /\ contains(command.args, Lit("search"))
    THEN SmallOutputs({<<>>, unlines(<<line_curl_v7>>), unlines(<<line_curl_v8>>)})
    ELSE IF command.program = "apt-cache" /\ contains(command.args, Lit("madison"))
    THEN SmallOutputs({<<>>, unlines(<<madison_v7>>), unlines(<<madison_v8>>)})
    ELSE SmallOutputs({<<>>, bytes_ok})

\* the requests of the "steady" load: one request for each tool, with a
\* package name and a version of one character or of none
TinyRequests ==
    {[name |-> "install_package",
      arguments |-> Some(ArgMap(JString(str_c), JAbsent, JAbsent, JAbsent))],
     [name |-> "install_package_with_version",
      arguments |-> Some(ArgMap(JString(str_c), JString(str_one), JAbsent, JAbsent))],
     [name |-> "install_package_with_version",
      arguments |-> Some(ArgMap(JString(<<>>), JString(str_one), JAbsent, JAbsent))],
     [name |-> "install_package_with_version",
      arguments |-> Some(ArgMap(JString(str_c), JString(<<>>), JAbsent, JAbsent))],
     [name |-> "search_package",
      arguments |-> Some(ArgMap(JAbsent, JAbsent, JString(str_c), JAbsent))],
     [name |-> "list_installed_packages", arguments |-> None],
     [name |-> "refresh_repositories", arguments |-> None]}

\* the outputs of the "steady" load
TinyOutputsOf(command) ==
    IF command.program = "apk" /\ contains(command.args, Lit("search"))
    THEN SmallOutputs({<<>>, unlines(<<line_c_one>>), unlines(<<line_c_two>>),
                       unlines(<<line_hyphen_one>>)})
    ELSE IF command.program = "apt-cache" /\ contains(command.args, Lit("madison"))
    THEN SmallOutputs({<<>>, unlines(<<madison_c_one>>), unlines(<<madison_c_two>>)})
    ELSE SmallOutputs({<<>>, bytes_ok})

\* the requests a client sends under a load
RequestsOf(load) ==
    IF load = "single" THEN Requests
    ELSE IF load = "steady" THEN TinyRequests
    ELSE SmallRequests

\* the outputs a started command can end with under a load
OutputsUnder(load, command) ==
    IF load = "single" THEN OutputsOf(command)
    ELSE IF load = "steady" THEN TinyOutputsOf(command)
    ELSE SmallOutputsOf(command)

---------------------------------------------------------------------------
(* backend/apk.rs *)

SEARCH_REPOSITORIES ==
    << "https://dl-cdn.alpinelinux.org/alpine/edge/main",
       "https://dl-cdn.alpinelinux.org/alpine/edge/community",
       "https://dl-cdn.alpinelinux.org/alpine/v3.22/main",
       "https://dl-cdn.alpinelinux.org/alpine/v3.22/community",
       "https://dl-cdn.alpinelinux.org/alpine/v3.21/main",
       "https://dl-cdn.alpinelinux.org/alpine/v3.21/community",
       "https://dl-cdn.alpinelinux.org/alpine/v3.20/main",
       "https://dl-cdn.alpinelinux.org/alpine/v3.20/community",
       "https://dl-cdn.alpinelinux.org/alpine/v3.19/main",
       "https://dl-cdn.alpinelinux.org/alpine/v3.19/community",
       "https://dl-cdn.alpinelinux.org/alpine/v3.18/main",
       "https://dl-cdn.alpinelinux.org/alpine/v3.18/community",
       "https://dl-cdn.alpinelinux.org/alpine/v3.17/main",
       "https://dl-cdn.alpinelinux.org/alpine/v3.17/community",
       "https://dl-cdn.alpinelinux.org/alpine/v3.16/main",
       "https://dl-cdn.alpinelinux.org/alpine/v3.16/community",
       "https://dl-cdn.alpinelinux.org/alpine/v3.15/main",
       "https://dl-cdn.alpinelinux.org/alpine/v3.15/community" >>

\* for repo in SEARCH_REPOSITORIES { arg("--repository"); arg(repo) }
AllRepositoryArgs ==
    [i \in 1..(2 * Len(SEARCH_REPOSITORIES)) |->
        IF i % 2 = 1 THEN Lit("--repository")
        ELSE Lit(SEARCH_REPOSITORIES[i \div 2])]

Command(program, env, args) == [program |-> program, env |-> env, args |-> args]

\* (mutation) the package is cut at ";" into several arguments
apk_install_command_split(opts) ==
    Command("apk", {},
        <<Lit("add")>>
        \o (IF IsSome(opts.repository)
            THEN <<Lit("--repository"), Txt(Unwrap(opts.repository))>> ELSE <<>>)
        \o [i \in 1..Len(split(opts.package, 59)) |-> Txt(split(opts.package, 59)[i])])

\* Apk::install_package: apk add [--repository R] P
apk_install_command(opts) ==
    Command("apk", {},
        <<Lit("add")>>
        \o (IF IsSome(opts.repository)
            THEN <<Lit("--repository"), Txt(Unwrap(opts.repository))>> ELSE <<>>)
        \o <<Txt(opts.package)>>)

\* (mutation) the known repositories are scanned as well as the given one
apk_search_command_with_known(opts) ==
    Command("apk", {},
        <<Lit("--no-cache")>>
        \o (IF IsSome(opts.repository)
            THEN <<Lit("--repository"), Txt(Unwrap(opts.repository))>>
            ELSE <<>>)
        \o AllRepositoryArgs
        \o <<Lit("search"), Lit("--exact"), Lit("--all"), Txt(opts.query)>>)

\* Apk::search_package: apk --no-cache (--repository R)+ search --exact --all Q
apk_search_command(opts) ==
    Command("apk", {},
        <<Lit("--no-cache")>>
        \o (IF IsSome(opts.repository)
            THEN <<Lit("--repository"), Txt(Unwrap(opts.repository))>>
            ELSE AllRepositoryArgs)
        \o <<Lit("search"), Lit("--exact"), Lit("--all"), Txt(opts.query)>>)

\* (mutation) the pinned install without the repository list
apk_install_version_without_repositories(opts) ==
    Command("apk", {},
        <<Lit("add"), Txt(opts.package \o str_equals \o opts.version)>>)

\* Apk::install_package_with_version, install branch:
\* apk add (--repository R)* P=V
apk_install_version_command(opts) ==
    Command("apk", {},
        <<Lit("add")>> \o AllRepositoryArgs
        \o <<Txt(opts.package \o str_equals \o opts.version)>>)

\* Apk::list_installed_packages: apk list -I
apk_list_command == Command("apk", {}, <<Lit("list"), Lit("-I")>>)

\* Apk::refresh_repositories: apk update
apk_update_command == Command("apk", {}, <<Lit("update")>>)

\* (mutation) the whitelist also lets ";" through
apk_validate_with_semicolon(input) ==
    \A i \in 1..Len(input) :
        is_alphanumeric(input[i]) \/ input[i] \in {46, 45, 95, 43, 59}

\* apk.rs validate_package_version_input
apk_validate_package_version_input(input) ==
    \A i \in 1..Len(input) :
        is_alphanumeric(input[i]) \/ input[i] \in {46, 45, 95, 43}

RECURSIVE apk_collect_versions(_, _)
\* the loop over stdout.lines(): the rest of every line that begins with
\* "<package>-", fetch lines and blank lines skipped
apk_collect_versions(ls, prefix) ==
    IF ls = <<>> THEN <<>>
    ELSE IF starts_with(Head(ls), str_fetch) \/ trim(Head(ls)) = <<>>
         THEN apk_collect_versions(Tail(ls), prefix)
    ELSE IF IsSome(strip_prefix(Head(ls), prefix))
         THEN <<Unwrap(strip_prefix(Head(ls), prefix))>>
              \o apk_collect_versions(Tail(ls), prefix)
    ELSE apk_collect_versions(Tail(ls), prefix)

\* found_versions after the loop, from the search ExecResult
apk_found_versions(search_result, opts) ==
    IF IsSome(search_result.stdout)
    THEN apk_collect_versions(lines(Unwrap(search_result.stdout)),
                              opts.package \o str_hyphen)
    ELSE <<>>

\* the payload of the package_not_found error
apk_package_not_found(opts) ==
    internal_error(
        <<Lit("Package '"), Txt(opts.package),
          Lit("' not found in any searched repository")>>,
        Some([package_name |-> opts.package,
              requested_version |-> opts.version,
              error_type |-> "package_not_found",
              searched_repositories |-> SEARCH_REPOSITORIES]))

\* (mutation) sorted, duplicates kept
apk_available_versions_sorted_only(found) == sort(found)

\* found_versions.sort(); found_versions.dedup()
apk_available_versions(found) == dedup(sort(found))

\* the version_not_found error (either backend), `available` as listed
version_not_found(opts, available) ==
    internal_error(
        <<Lit("Version '"), Txt(opts.version), Lit("' of package '"),
          Txt(opts.package), Lit("' not found. Available versions: "),
          Txt(join(available, str_comma_space))>>,
        Some([package_name |-> opts.package,
              requested_version |-> opts.version,
              available_versions |-> available,
              error_type |-> "version_not_found"]))

\* the validation_error raised for a bad package name / a bad version
validation_error(field, value, allowed) ==
    internal_error(
        <<Lit(IF field = "package_name" THEN "Invalid package name '"
              ELSE "Invalid version string '"),
          Txt(value), Lit(allowed)>>,
        Some((field :> value) @@ [error_type |-> "validation_error"]))

---------------------------------------------------------------------------
(* backend/apt.rs *)

Noninteractive == {<<"DEBIAN_FRONTEND", "noninteractive">>}

\* Apt::install_package: apt-get install -y [-o Dir::Etc::sourcelist=R] P
apt_install_command(opts) ==
    Command("apt-get", Noninteractive,
        <<Lit("install"), Lit("-y")>>
        \o (IF IsSome(opts.repository)
            THEN <<Lit("-o"), LitTxt("Dir::Etc::sourcelist=", Unwrap(opts.repository))>>
            ELSE <<>>)
        \o <<Txt(opts.package)>>)

\* Apt::install_package_with_version, availability check: apt-cache madison P
apt_madison_command(opts) ==
    Command("apt-cache", {}, <<Lit("madison"), Txt(opts.package)>>)

\* Apt::install_package_with_version, install branch: apt-get install -y P=V
apt_install_version_command(opts) ==
    Command("apt-get", Noninteractive,
        <<Lit("install"), Lit("-y"),
          Txt(opts.package \o str_equals \o opts.version)>>)

\* (mutation) the repository is handed to apt-cache as a source list
apt_search_command_with_repository(opts) ==
    Command("apt-cache", {},
        (IF IsSome(opts.repository)
         THEN <<Lit("-o"), LitTxt("Dir::Etc::sourcelist=", Unwrap(opts.repository))>>
         ELSE <<>>)
        \o <<Lit("search"), Txt(opts.query)>>)

\* Apt::search_package: apt-cache search Q (the repository is not used)
apt_search_command(opts) ==
    Command("apt-cache", {}, <<Lit("search"), Txt(opts.query)>>)

\* Apt::list_installed_packages: apt list --installed
apt_list_command == Command("apt", {}, <<Lit("list"), Lit("--installed")>>)

\* Apt::refresh_repositories: apt-get update
apt_update_command == Command("apt-get", Noninteractive, <<Lit("update")>>)

\* apt.rs validate_package_version_input
apt_validate_package_version_input(input) ==
    \A i \in 1..Len(input) :
        is_alphanumeric(input[i]) \/ input[i] \in {46, 45, 95, 43, 58, 126}

RECURSIVE apt_collect_versions(_, _)
\* the loop over the madison lines: the trimmed second "|" field of every
\* line that has one, kept once, in order of first appearance
apt_collect_versions(ls, found) ==
    IF ls = <<>> THEN found
    ELSE IF Len(split(Head(ls), 124)) >= 2
            /\ ~contains(found, trim(split(Head(ls), 124)[2]))
         THEN apt_collect_versions(Tail(ls),
                                   Append(found, trim(split(Head(ls), 124)[2])))
    ELSE apt_collect_versions(Tail(ls), found)

\* found_versions after the loop, from the madison Output
apt_found_versions(madison_output) ==
    IF madison_output.code = Some(0)
    THEN apt_collect_versions(lines(from_utf8_lossy(madison_output.stdout)), <<>>)
    ELSE <<>>


---------------------------------------------------------------------------
(* backend/mod.rs: PackageManagerHandler::call_tool *)

Num(n) == [num |-> n]

\* (mutation) a missing argument read as the empty string
get_str_or_default(arguments, key) ==
    IF IsSome(arguments) /\ Unwrap(arguments)[key].t = "string"
    THEN Some(Unwrap(arguments)[key].s)
    ELSE Some(<<>>)

\* (mutation) a value that is not a string is taken by its text
get_str_coercing(arguments, key) ==
    IF IsSome(arguments) /\ Unwrap(arguments)[key].t # "absent"
    THEN Some(IF Unwrap(arguments)[key].t = "string"
              THEN Unwrap(arguments)[key].s ELSE str_one)
    ELSE None

\* request.arguments.as_ref().and_then(|args| args.get(key).and_then(as_str))
get_str(arguments, key) ==
    IF IsSome(arguments) /\ Unwrap(arguments)[key].t = "string"
    THEN Some(Unwrap(arguments)[key].s)
    ELSE None

\* .ok_or_else(|| McpError::invalid_params("missing required parameter: ..."))
missing_parameter(key) ==
    invalid_params(<<Lit("missing required parameter: "), Lit(key)>>, None)

\* argument extraction of each arm: the options struct for the backend
\* call (None for the two tools without arguments), or invalid_params
extract_options(req) ==
    CASE req.name = "install_package" ->
            IF ~IsSome(get_str(req.arguments, "package_name"))
            THEN Err(missing_parameter("package_name"))
            ELSE Ok(Some([package |-> Unwrap(get_str(req.arguments, "package_name")),
                          repository |-> get_str(req.arguments, "repository")]))
      [] req.name = "install_package_with_version" ->
            IF ~IsSome(get_str(req.arguments, "package_name"))
            THEN Err(missing_parameter("package_name"))
            ELSE IF ~IsSome(get_str(req.arguments, "version"))
            THEN Err(missing_parameter("version"))
            ELSE Ok(Some([package |-> Unwrap(get_str(req.arguments, "package_name")),
                          version |-> Unwrap(get_str(req.arguments, "version"))]))
      [] req.name = "search_package" ->
            IF ~IsSome(get_str(req.arguments, "query"))
            THEN Err(missing_parameter("query"))
            ELSE Ok(Some([query |-> Unwrap(get_str(req.arguments, "query")),
                          repository |-> get_str(req.arguments, "repository")]))
      [] OTHER -> Ok(None)

\* (mutation) the default arm answers as if the call had worked
unknown_tool_as_success(name) == ToolSuccess(<<Lit("ok")>>)

\* the default arm of the match on request.name
unknown_tool(name) ==
    ToolError(<<Lit("Unknown tool '"), Lit(name),
                Lit("'. Available tools: install_package, install_package_with_version, list_installed_packages, refresh_repositories, search_package")>>)

\* error_details["stdout"] / ["stderr"] = ..., set when the stream is Some
with_stream(details, key, stream) ==
    IF IsSome(stream) THEN details @@ (key :> Unwrap(stream)) ELSE details

\* the failure for a non-zero exit status of install_package,
\* install_package_with_version, refresh_repositories and search_package
exit_failure(message, details, exec_result) ==
    ToolFailure(internal_error(
        message \o <<Lit(" (exit code: "), Num(exec_result.status), Lit(")")>>,
        Some(with_stream(with_stream(details, "stdout", exec_result.stdout),
                         "stderr", exec_result.stderr))))

\* the failure for a non-zero exit status of list_installed_packages
list_exit_failure(message, details, exec_result) ==
    ToolFailure(internal_error(
        message \o <<Lit(" (exit code: "), Num(exec_result.status), Lit(")")>>,
        Some(with_stream(details, "stderr", exec_result.stderr))))

\* "This may indicate {pm_name} is not available or there are permission issues."
may_indicate(pm_name) ==
    <<Lit(". This may indicate "), Lit(pm_name),
      Lit(" is not available or there are permission issues.")>>

\* "Ensure {pm_name} package manager is installed and you have sufficient privileges"
ensure_installed(pm_name) ==
    <<Lit("Ensure "), Lit(pm_name),
      Lit(" package manager is installed and you have sufficient privileges")>>

\* "Ensure {pm_name} package manager is available"
ensure_available(pm_name) ==
    <<Lit("Ensure "), Lit(pm_name), Lit(" package manager is available")>>

\* the Err(err) arm that wraps a backend error as a system_error; `extra` is
\* the request field the payload repeats, if any
system_error(message, error, hint, extra, suggestion) ==
    ToolFailure(internal_error(
        message \o Debug(error) \o hint,
        Some(IF IsSome(extra)
             THEN (Unwrap(extra)[1] :> Unwrap(extra)[2])
                  @@ [error_type |-> "system_error", suggestion |-> suggestion]
             ELSE [error_type |-> "system_error", suggestion |-> suggestion])))

\* (mutation) no line is filtered out
keep_fetch_lines(ls) == ls

\* stdout.lines().filter(|line| !line.starts_with("fetch ")).join("\n")
RECURSIVE drop_fetch_lines(_)
drop_fetch_lines(ls) ==
    IF ls = <<>> THEN <<>>
    ELSE IF starts_with(Head(ls), str_fetch) THEN drop_fetch_lines(Tail(ls))
    ELSE <<Head(ls)>> \o drop_fetch_lines(Tail(ls))

cleaned_stdout(stdout) == join(drop_fetch_lines(lines(stdout)), NL)

\* the text of a successful search_package
search_results(query, exec_result) ==
    IF IsSome(exec_result.stdout) /\ trim(Unwrap(exec_result.stdout)) # <<>>
    THEN <<Lit("Search results for query '"), Txt(query), Lit("':\n\n"),
           Txt(cleaned_stdout(Unwrap(exec_result.stdout)))>>
    ELSE <<Lit("Search completed for query '"), Txt(query),
           Lit("' but no packages were found.")>>

\* match package_installation { .. } of the install_package arm
install_package_response(opts, pm_name, result) ==
    IF result.ok
    THEN IF result.val.status = 0
         THEN ToolSuccess(<<Lit("Package '"), Txt(opts.package),
                            Lit("' was installed successfully.")>>)
         ELSE exit_failure(
                <<Lit("Failed to install package '"), Txt(opts.package), Lit("'")>>,
                [package_name |-> opts.package,
                 exit_code |-> result.val.status,
                 package_manager |-> pm_name],
                result.val)
    ELSE system_error(
            <<Lit("System error while installing package '"), Txt(opts.package),
              Lit("': ")>>,
            result.err, may_indicate(pm_name),
            Some(<<"package_name", opts.package>>), ensure_installed(pm_name))

\* (mutation) the Err arm wraps the backend error as the install_package arm does
install_package_with_version_response_wrapping(opts, pm_name, result) ==
    IF result.ok
    THEN IF result.val.status = 0
         THEN ToolSuccess(<<Lit("Package '"), Txt(opts.package), Lit("' version '"),
                            Txt(opts.version), Lit("' was installed successfully.")>>)
         ELSE exit_failure(
                <<Lit("Failed to install package '"), Txt(opts.package),
                  Lit("' version '"), Txt(opts.version), Lit("'")>>,
                [package_name |-> opts.package,
                 version |-> opts.version,
                 exit_code |-> result.val.status,
                 package_manager |-> pm_name],
                result.val)
    ELSE system_error(
            <<Lit("System error while installing package '"), Txt(opts.package),
              Lit("': ")>>,
            result.err, may_indicate(pm_name),
            Some(<<"package_name", opts.package>>), ensure_installed(pm_name))

\* match package_installation { .. } of the install_package_with_version arm
install_package_with_version_response(opts, pm_name, result) ==
    IF result.ok
    THEN IF result.val.status = 0
         THEN ToolSuccess(<<Lit("Package '"), Txt(opts.package), Lit("' version '"),
                            Txt(opts.version), Lit("' was installed successfully.")>>)
         ELSE exit_failure(
                <<Lit("Failed to install package '"), Txt(opts.package),
                  Lit("' version '"), Txt(opts.version), Lit("'")>>,
                [package_name |-> opts.package,
                 version |-> opts.version,
                 exit_code |-> result.val.status,
                 package_manager |-> pm_name],
                result.val)
    ELSE ToolFailure(result.err)

\* match repository_refresh { .. }
refresh_repositories_response(pm_name, result) ==
    IF result.ok
    THEN IF result.val.status = 0
         THEN ToolSuccess(<<Lit("All repositories were refreshed successfully.")>>)
         ELSE exit_failure(
                <<Lit("Failed to refresh repositories")>>,
                [exit_code |-> result.val.status, package_manager |-> pm_name],
                result.val)
    ELSE system_error(<<Lit("System error while refreshing repositories: ")>>,
                      result.err, may_indicate(pm_name), None,
                      ensure_installed(pm_name))

\* match package_list { .. }
list_installed_packages_response(pm_name, result) ==
    IF result.ok
    THEN IF result.val.status = 0
         THEN ToolSuccess(<<Lit("Installed packages:\n"),
                            Txt(IF IsSome(result.val.stdout)
                                THEN Unwrap(result.val.stdout) ELSE <<>>)>>)
         ELSE list_exit_failure(
                <<Lit("Failed to list installed packages")>>,
                [exit_code |-> result.val.status, package_manager |-> pm_name],
                result.val)
    ELSE system_error(<<Lit("System error while listing packages: ")>>,
                      result.err, <<>>, None, ensure_available(pm_name))

\* match package_search { .. }
search_package_response(opts, pm_name, result) ==
    IF result.ok
    THEN IF result.val.status = 0
         THEN ToolSuccess(search_results(opts.query, result.val))
         ELSE exit_failure(
                <<Lit("Failed to search for packages with query '"),
                  Txt(opts.query), Lit("'")>>,
                [query |-> opts.query,
                 exit_code |-> result.val.status,
                 package_manager |-> pm_name],
                result.val)
    ELSE system_error(
            <<Lit("System error while searching for packages with query '"),
              Txt(opts.query), Lit("': ")>>,
            result.err, may_indicate(pm_name),
            Some(<<"query", opts.query>>), ensure_installed(pm_name))

\* what call_tool returns once the blocking task has returned `result`
response(req, opts, pm_name, result) ==
    CASE req.name = "install_package" ->
            install_package_response(Unwrap(opts), pm_name, result)
      [] req.name = "install_package_with_version" ->
            install_package_with_version_response(Unwrap(opts), pm_name, result)
      [] req.name = "refresh_repositories" ->
            refresh_repositories_response(pm_name, result)
      [] req.name = "list_installed_packages" ->
            list_installed_packages_response(pm_name, result)
      [] req.name = "search_package" ->
            search_package_response(Unwrap(opts), pm_name, result)

\* the JoinError of a blocking task, as `{err:?}` prints it
JoinErrorText == Lit("JoinError::Cancelled")

\* (mutation) a failed task reported like a subprocess killed by a signal
join_error_as_exit(req, opts) ==
    ToolFailure(internal_error(
        <<Lit("Failed (exit code: -1)")>>,
        Some([exit_code |-> -1, package_manager |-> backend])))

\* .await.map_err(..)? on the JoinHandle of the blocking task
join_error(req, opts) ==
    ToolFailure(internal_error(
        (CASE req.name = "install_package" ->
                <<Lit("there was an error spawning installation process for package "),
                  Txt(Unwrap(opts).package)>>
           [] req.name = "install_package_with_version" ->
                <<Lit("there was an error spawning installation process for package "),
                  Txt(Unwrap(opts).package \o str_equals \o Unwrap(opts).version)>>
           [] req.name = "refresh_repositories" ->
                <<Lit("there was an error spawning repository refresh process")>>
           [] req.name = "list_installed_packages" ->
                <<Lit("there was an error spawning package listing process")>>
           [] req.name = "search_package" ->
                <<Lit("there was an error spawning search process for query "),
                  Txt(Unwrap(opts).query)>>)
        \o <<Lit(": "), JoinErrorText>>,
        None))

---------------------------------------------------------------------------
(* The state machine *)

NoRequest == [name |-> "", arguments |-> None]

\* the state before main() probes the marker files, for a run whose load is
\* `load` and whose requests arrive on the slots `slots`
Start(load, slots) ==
    /\ alpine_release \in BOOLEAN
    /\ debian_version \in BOOLEAN
    /\ server = "starting"
    /\ backend = "none"
    /\ clients = slots
    /\ scenario = load
    /\ previous = [r \in Reqs |-> None]
    /\ pc = [r \in Reqs |-> "idle"]
    /\ request = [r \in Reqs |-> NoRequest]
    /\ options = [r \in Reqs |-> None]
    /\ phase = [r \in Reqs |-> "none"]
    /\ cmds = [r \in Reqs |-> <<>>]
    /\ found_versions = [r \in Reqs |-> <<>>]
    /\ version_found = [r \in Reqs |-> FALSE]
    /\ ret = [r \in Reqs |-> None]
    /\ tasks = [r \in Reqs |-> 0]
    /\ joined = [r \in Reqs |-> "pending"]
    /\ resp = [r \in Reqs |-> None]

\* one client, one request in flight at a time, the full pool of inputs
Init == Start("single", {1})

\* one client that sends request after request; each served request and its
\* response are remembered until the next one has been served
InitRepeat == Start("repeat", {1})

\* two clients whose requests are in flight at the same time
InitConcurrent == Start("concurrent", Reqs)

\* one client, one request in flight at a time, the small pool of inputs
InitSteady == Start("steady", {1})

\* (mutation) the Debian marker is probed first
MainDebianFirst ==
    /\ server = "starting"
    /\ IF debian_version
       THEN /\ backend' = "APT"
            /\ \E bound \in BOOLEAN :
                 server' = IF bound THEN "serving" ELSE "bind_error"
       ELSE IF alpine_release
       THEN /\ backend' = "APK"
            /\ \E bound \in BOOLEAN :
                 server' = IF bound THEN "serving" ELSE "bind_error"
       ELSE /\ backend' = backend
            /\ server' = "fatal"
    /\ UNCHANGED <<alpine_release, debian_version, clients, scenario, pc, request,
                   options, phase, cmds, found_versions, version_found, ret,
                   tasks, joined, resp, previous>>

\* main(): probe the marker files, build the handler, bind the listener
Main ==
    /\ server = "starting"
    /\ IF alpine_release
       THEN /\ backend' = "APK"
            /\ \E bound \in BOOLEAN :
                 server' = IF bound THEN "serving" ELSE "bind_error"
       ELSE IF debian_version
       THEN /\ backend' = "APT"
            /\ \E bound \in BOOLEAN :
                 server' = IF bound THEN "serving" ELSE "bind_error"
       ELSE /\ backend' = backend
            /\ server' = "fatal"
    /\ UNCHANGED <<alpine_release, debian_version, clients, scenario, pc, request,
                   options, phase, cmds, found_versions, version_found, ret,
                   tasks, joined, resp, previous>>

Env == <<alpine_release, debian_version, server, backend, clients, scenario>>

\* call_tool up to the spawn_blocking call: dispatch on the tool name and
\* extract the arguments
CallTool(r) ==
    /\ server = "serving"
    /\ r \in clients
    /\ pc[r] = "idle"
    /\ \E req \in RequestsOf(scenario) :
         /\ request' = [request EXCEPT ![r] = req]
         /\ IF req.name \notin ToolNames
            THEN /\ resp' = [resp EXCEPT ![r] = Some(unknown_tool(req.name))]
                 /\ pc' = [pc EXCEPT ![r] = "done"]
                 /\ UNCHANGED <<options, tasks>>
            ELSE IF extract_options(req).ok
            THEN /\ options' = [options EXCEPT ![r] = extract_options(req).val]
                 /\ tasks' = [tasks EXCEPT ![r] = @ + 1]
                 /\ pc' = [pc EXCEPT ![r] = "queued"]
                 /\ UNCHANGED resp
            ELSE /\ resp' = [resp EXCEPT ![r] =
                                Some(ToolFailure(extract_options(req).err))]
                 /\ pc' = [pc EXCEPT ![r] = "done"]
                 /\ UNCHANGED <<options, tasks>>
    /\ UNCHANGED <<Env, previous, phase, cmds, found_versions, version_found, ret, joined>>

\* Command::output(): the call is recorded; the program either cannot be
\* started (the map_err error is returned) or starts and runs
Output(r, command, ph, error) ==
    \E started \in BOOLEAN :
        /\ cmds' = [cmds EXCEPT ![r] =
                       Append(@, [command |-> command, started |-> started,
                                  output |-> None])]
        /\ IF started
           THEN /\ pc' = [pc EXCEPT ![r] = "running"]
                /\ phase' = [phase EXCEPT ![r] = ph]
                /\ UNCHANGED ret
           ELSE /\ pc' = [pc EXCEPT ![r] = "returned"]
                /\ ret' = [ret EXCEPT ![r] = Some(Err(error))]
                /\ UNCHANGED phase

\* (mutation) a program that cannot start reported like an exit status
spawn_error_with_exit_code(message) ==
    internal_error(message \o <<Lit(": "), IoError>>, Some([exit_code |-> -1]))

\* the map_err closure of a Command::output() call
spawn_error(message) == internal_error(message \o <<Lit(": "), IoError>>, None)

\* backend.install_package(&install_options) up to command.output()
InstallPackage(r) ==
    /\ pc[r] = "queued"
    /\ request[r].name = "install_package"
    /\ Output(r,
              IF backend = "APK" THEN apk_install_command(Unwrap(options[r]))
              ELSE apt_install_command(Unwrap(options[r])),
              "single",
              spawn_error(<<Lit("there was an error installing package "),
                            Txt(Unwrap(options[r]).package)>>))
    /\ UNCHANGED <<Env, previous, request, options, found_versions, version_found, tasks,
                   joined, resp>>

\* backend.search_package(&search_options) up to command.output()
SearchPackage(r) ==
    /\ pc[r] = "queued"
    /\ request[r].name = "search_package"
    /\ Output(r,
              IF backend = "APK" THEN apk_search_command(Unwrap(options[r]))
              ELSE apt_search_command(Unwrap(options[r])),
              "single",
              spawn_error(<<Lit("there was an error searching for packages with query "),
                            Txt(Unwrap(options[r]).query)>>))
    /\ UNCHANGED <<Env, previous, request, options, found_versions, version_found, tasks,
                   joined, resp>>

\* backend.list_installed_packages() up to .output()
ListInstalledPackages(r) ==
    /\ pc[r] = "queued"
    /\ request[r].name = "list_installed_packages"
    /\ Output(r,
              IF backend = "APK" THEN apk_list_command ELSE apt_list_command,
              "single",
              spawn_error(<<Lit("there was an error listing installed packages")>>))
    /\ UNCHANGED <<Env, previous, request, options, found_versions, version_found, tasks,
                   joined, resp>>

\* backend.refresh_repositories() up to .output()
RefreshRepositories(r) ==
    /\ pc[r] = "queued"
    /\ request[r].name = "refresh_repositories"
    /\ Output(r,
              IF backend = "APK" THEN apk_update_command ELSE apt_update_command,
              "single",
              spawn_error(<<Lit("there was an error refreshing repositories")>>))
    /\ UNCHANGED <<Env, previous, request, options, found_versions, version_found, tasks,
                   joined, resp>>

\* (mutation) the whitelist with at least one character asked for
validate_nonempty_input(input) ==
    /\ input # <<>>
    /\ IF backend = "APK" THEN apk_validate_package_version_input(input)
       ELSE apt_validate_package_version_input(input)

\* validate_package_version_input of the active backend
validate_package_version_input(input) ==
    IF backend = "APK" THEN apk_validate_package_version_input(input)
    ELSE apt_validate_package_version_input(input)

\* the text that ends the validation message of the active backend
allowed_characters(field) ==
    IF backend = "APK"
    THEN "': only alphanumeric characters, dots, hyphens, underscores, and plus signs are allowed"
    ELSE IF field = "package_name"
    THEN "': only alphanumeric characters, dots, hyphens, underscores, plus signs, and colons are allowed"
    ELSE "': only alphanumeric characters, dots, hyphens, underscores, plus signs, colons, and tildes are allowed"

\* install_package_with_version: the two validation checks
ValidateInput(r) ==
    /\ pc[r] = "queued"
    /\ request[r].name = "install_package_with_version"
    /\ IF ~validate_package_version_input(Unwrap(options[r]).package)
       THEN /\ ret' = [ret EXCEPT ![r] = Some(Err(validation_error(
                         "package_name", Unwrap(options[r]).package,
                         allowed_characters("package_name"))))]
            /\ pc' = [pc EXCEPT ![r] = "returned"]
       ELSE IF ~validate_package_version_input(Unwrap(options[r]).version)
       THEN /\ ret' = [ret EXCEPT ![r] = Some(Err(validation_error(
                         "version", Unwrap(options[r]).version,
                         allowed_characters("version"))))]
            /\ pc' = [pc EXCEPT ![r] = "returned"]
       ELSE /\ pc' = [pc EXCEPT ![r] = "validated"]
            /\ UNCHANGED ret
    /\ UNCHANGED <<Env, previous, request, options, phase, cmds, found_versions,
                   version_found, tasks, joined, resp>>

\* (mutation) the availability query does not wait for the validation
QueryVersionsUnvalidated(r) ==
    /\ pc[r] \in {"queued", "validated"}
    /\ request[r].name = "install_package_with_version"
    /\ IF backend = "APK"
       THEN Output(r,
                apk_search_command([query |-> Unwrap(options[r]).package,
                                    repository |-> None]),
                "query",
                spawn_error(<<Lit("there was an error searching for packages with query "),
                              Txt(Unwrap(options[r]).package)>>))
       ELSE Output(r,
                apt_madison_command(Unwrap(options[r])),
                "query",
                spawn_error(<<Lit("there was an error checking versions for package "),
                              Txt(Unwrap(options[r]).package)>>))
    /\ UNCHANGED <<Env, previous, request, options, found_versions, version_found,
                   tasks, joined, resp>>

\* install_package_with_version: the availability query
\* (APK: self.search_package over all repositories; APT: apt-cache madison)
QueryVersions(r) ==
    /\ pc[r] = "validated"
    /\ IF backend = "APK"
       THEN Output(r,
                apk_search_command([query |-> Unwrap(options[r]).package,
                                    repository |-> None]),
                "query",
                spawn_error(<<Lit("there was an error searching for packages with query "),
                              Txt(Unwrap(options[r]).package)>>))
       ELSE Output(r,
                apt_madison_command(Unwrap(options[r])),
                "query",
                spawn_error(<<Lit("there was an error checking versions for package "),
                              Txt(Unwrap(options[r]).package)>>))
    /\ UNCHANGED <<Env, previous, request, options, found_versions, version_found, tasks,
                   joined, resp>>

\* the command last handed to Command::output() and its record
LastCmd(r) == cmds[r][Len(cmds[r])]

\* (mutation) a subprocess that ends with a failure is run again
ProcessExitRetrying(r) ==
    /\ pc[r] = "running"
    /\ \E out \in OutputsUnder(scenario, LastCmd(r).command) :
         /\ cmds' = [cmds EXCEPT ![r][Len(cmds[r])].output = Some(out)]
         /\ pc' = [pc EXCEPT ![r] =
                      IF out.code = Some(0) THEN "exited"
                      ELSE IF phase[r] = "single" THEN "queued"
                      ELSE IF phase[r] = "query" THEN "validated"
                      ELSE "parsed"]
    /\ UNCHANGED <<Env, previous, request, options, phase, found_versions, version_found,
                   ret, tasks, joined, resp>>

\* the running subprocess ends: its Output is captured
ProcessExit(r) ==
    /\ pc[r] = "running"
    /\ \E out \in OutputsUnder(scenario, LastCmd(r).command) :
         cmds' = [cmds EXCEPT ![r][Len(cmds[r])].output = Some(out)]
    /\ pc' = [pc EXCEPT ![r] = "exited"]
    /\ UNCHANGED <<Env, previous, request, options, phase, found_versions, version_found,
                   ret, tasks, joined, resp>>

\* (mutation) the backend turns a non-zero status into an error
ReturnExecResultClassified(r) ==
    /\ pc[r] = "exited"
    /\ phase[r] \in {"single", "install"}
    /\ ret' = [ret EXCEPT ![r] =
                  IF ExecResultFrom(Unwrap(LastCmd(r).output)).status = 0
                  THEN Some(Ok(ExecResultFrom(Unwrap(LastCmd(r).output))))
                  ELSE Some(Err(internal_error(<<Lit("command failed")>>, None)))]
    /\ pc' = [pc EXCEPT ![r] = "returned"]
    /\ UNCHANGED <<Env, previous, request, options, phase, cmds, found_versions,
                   version_found, tasks, joined, resp>>

\* (mutation) the result is kept in one cell that every request reads
ReturnExecResultShared(r) ==
    /\ pc[r] = "exited"
    /\ phase[r] \in {"single", "install"}
    /\ ret' = [q \in Reqs |-> Some(Ok(ExecResultFrom(Unwrap(LastCmd(r).output))))]
    /\ pc' = [pc EXCEPT ![r] = "returned"]
    /\ UNCHANGED <<Env, previous, request, options, phase, cmds, found_versions,
                   version_found, tasks, joined, resp>>

\* Ok(ExecResult { .. }) at the end of a backend operation
ReturnExecResult(r) ==
    /\ pc[r] = "exited"
    /\ phase[r] \in {"single", "install"}
    /\ ret' = [ret EXCEPT ![r] = Some(Ok(ExecResultFrom(Unwrap(LastCmd(r).output))))]
    /\ pc' = [pc EXCEPT ![r] = "returned"]
    /\ UNCHANGED <<Env, previous, request, options, phase, cmds, found_versions,
                   version_found, tasks, joined, resp>>

\* found_versions as the resolver of the active backend parses it
parsed_versions(output, opts) ==
    IF backend = "APK"
    THEN apk_found_versions(ExecResultFrom(output), opts)
    ELSE apt_found_versions(output)

\* install_package_with_version: parse the availability output
ParseVersions(r) ==
    /\ pc[r] = "exited"
    /\ phase[r] = "query"
    /\ found_versions' = [found_versions EXCEPT ![r] =
            parsed_versions(Unwrap(LastCmd(r).output), Unwrap(options[r]))]
    /\ version_found' = [version_found EXCEPT ![r] =
            contains(parsed_versions(Unwrap(LastCmd(r).output), Unwrap(options[r])),
                     Unwrap(options[r]).version)]
    /\ pc' = [pc EXCEPT ![r] = "parsed"]
    /\ UNCHANGED <<Env, previous, request, options, phase, cmds, ret, tasks, joined, resp>>

\* (mutation) the APK condition on either backend
install_branch_exact_only(found, exact) == exact

\* (mutation) the APT condition on either backend
install_branch_when_unverified(found, exact) == exact \/ found = <<>>

\* the condition of the install branch
\* (APK: version_found; APT: version_found || found_versions.is_empty())
install_branch(found, exact) ==
    IF backend = "APK" THEN exact ELSE exact \/ found = <<>>

\* install_package_with_version: the pinned install
InstallVersion(r) ==
    /\ pc[r] = "parsed"
    /\ install_branch(found_versions[r], version_found[r])
    /\ Output(r,
              IF backend = "APK" THEN apk_install_version_command(Unwrap(options[r]))
              ELSE apt_install_version_command(Unwrap(options[r])),
              "install",
              spawn_error(<<Lit("there was an error installing package "),
                            Txt(Unwrap(options[r]).package \o str_equals
                                \o Unwrap(options[r]).version)>>))
    /\ UNCHANGED <<Env, previous, request, options, found_versions, version_found, tasks,
                   joined, resp>>

\* (mutation) version_not_found whatever the candidates
resolver_error_always_versions(found, opts) == version_not_found(opts, found)

\* the error the resolver returns when it does not install
resolver_error(found, opts) ==
    IF backend = "APK"
    THEN IF found = <<>> THEN apk_package_not_found(opts)
         ELSE version_not_found(opts, apk_available_versions(found))
    ELSE version_not_found(opts, found)

\* install_package_with_version: package_not_found / version_not_found
RejectVersion(r) ==
    /\ pc[r] = "parsed"
    /\ ~install_branch(found_versions[r], version_found[r])
    /\ ret' = [ret EXCEPT ![r] =
                  Some(Err(resolver_error(found_versions[r], Unwrap(options[r]))))]
    /\ pc' = [pc EXCEPT ![r] = "returned"]
    /\ UNCHANGED <<Env, previous, request, options, phase, cmds, found_versions,
                   version_found, tasks, joined, resp>>

\* (mutation) the await gives up while the subprocess is still running
JoinErrorWhileRunning(r) ==
    /\ pc[r] \in {"queued", "running"}
    /\ joined' = [joined EXCEPT ![r] = "failed"]
    /\ resp' = [resp EXCEPT ![r] = Some(join_error(request[r], options[r]))]
    /\ pc' = [pc EXCEPT ![r] = "done"]
    /\ UNCHANGED <<Env, previous, request, options, phase, cmds, found_versions,
                   version_found, ret, tasks>>

\* the blocking task is cancelled before it runs: awaiting it gives a JoinError
JoinError(r) ==
    /\ pc[r] = "queued"
    /\ joined' = [joined EXCEPT ![r] = "failed"]
    /\ resp' = [resp EXCEPT ![r] = Some(join_error(request[r], options[r]))]
    /\ pc' = [pc EXCEPT ![r] = "done"]
    /\ UNCHANGED <<Env, previous, request, options, phase, cmds, found_versions,
                   version_found, ret, tasks>>

\* (mutation) an identical request served before is answered from memory
RespondCached(r) ==
    /\ pc[r] = "returned"
    /\ joined' = [joined EXCEPT ![r] = "ok"]
    /\ resp' = [resp EXCEPT ![r] =
                   IF IsSome(previous[r]) /\ Unwrap(previous[r]).request = request[r]
                   THEN Some(Unwrap(previous[r]).resp)
                   ELSE Some(response(request[r], options[r], backend, Unwrap(ret[r])))]
    /\ pc' = [pc EXCEPT ![r] = "done"]
    /\ UNCHANGED <<Env, previous, request, options, phase, cmds, found_versions,
                   version_found, ret, tasks>>

\* the blocking task returned: call_tool builds its result
Respond(r) ==
    /\ pc[r] = "returned"
    /\ joined' = [joined EXCEPT ![r] = "ok"]
    /\ resp' = [resp EXCEPT ![r] =
                   Some(response(request[r], options[r], backend, Unwrap(ret[r])))]
    /\ pc' = [pc EXCEPT ![r] = "done"]
    /\ UNCHANGED <<Env, previous, request, options, phase, cmds, found_versions,
                   version_found, ret, tasks>>

\* the response has been sent; the slot takes the next request
NextRequest(r) ==
    /\ pc[r] = "done"
    /\ pc' = [pc EXCEPT ![r] = "idle"]
    /\ request' = [request EXCEPT ![r] = NoRequest]
    /\ options' = [options EXCEPT ![r] = None]
    /\ phase' = [phase EXCEPT ![r] = "none"]
    /\ cmds' = [cmds EXCEPT ![r] = <<>>]
    /\ found_versions' = [found_versions EXCEPT ![r] = <<>>]
    /\ version_found' = [version_found EXCEPT ![r] = FALSE]
    /\ ret' = [ret EXCEPT ![r] = None]
    /\ tasks' = [tasks EXCEPT ![r] = 0]
    /\ joined' = [joined EXCEPT ![r] = "pending"]
    /\ resp' = [resp EXCEPT ![r] = None]
    /\ previous' = IF scenario = "repeat"
                   THEN [previous EXCEPT ![r] =
                            Some([request |-> request[r], resp |-> Unwrap(resp[r])])]
                   ELSE previous
    /\ UNCHANGED Env

Next ==
    \/ Main
    \/ \E r \in Reqs :
        \/ CallTool(r)
        \/ InstallPackage(r)
        \/ SearchPackage(r)
        \/ ListInstalledPackages(r)
        \/ RefreshRepositories(r)
        \/ ValidateInput(r)
        \/ QueryVersions(r)
        \/ ProcessExit(r)
        \/ ReturnExecResult(r)
        \/ ParseVersions(r)
        \/ InstallVersion(r)
        \/ RejectVersion(r)
        \/ JoinError(r)
        \/ Respond(r)
        \/ NextRequest(r)

Spec == Init /\ [][Next]_vars

SpecRepeat == InitRepeat /\ [][Next]_vars

SpecConcurrent == InitConcurrent /\ [][Next]_vars

\* the steps the runtime takes for a request in flight: the blocking task
\* and the await of call_tool
Progress(r) ==
    \/ InstallPackage(r)
    \/ SearchPackage(r)
    \/ ListInstalledPackages(r)
    \/ RefreshRepositories(r)
    \/ ValidateInput(r)
    \/ QueryVersions(r)
    \/ ReturnExecResult(r)
    \/ ParseVersions(r)
    \/ InstallVersion(r)
    \/ RejectVersion(r)
    \/ JoinError(r)
    \/ Respond(r)

\* one client; the runtime keeps running every task that can run, and every
\* subprocess that was started ends
SpecFair ==
    /\ InitSteady
    /\ [][Next]_vars
    /\ \A r \in Reqs : WF_vars(Progress(r)) /\ WF_vars(ProcessExit(r))


---------------------------------------------------------------------------
(* Vocabulary of the properties *)

IsVersionInstall(r) == request[r].name = "install_package_with_version"

\* the request has been taken and the blocking task was not cancelled
Served(r) == pc[r] # "idle" /\ joined[r] # "failed"

\* the whitelist of the active backend, stated on code points
Whitelisted(text) ==
    \A i \in 1..Len(text) :
        \/ is_alphanumeric(text[i])
        \/ text[i] \in {43, 45, 46, 95}                       \* + - . _
        \/ backend = "APT" /\ text[i] \in {58, 126}           \* : ~

\* the error_type of an McpError payload, "none" without one
ErrorType(error) ==
    IF IsSome(error.data) /\ "error_type" \in DOMAIN Unwrap(error.data)
    THEN Unwrap(error.data).error_type
    ELSE "none"

\* whether an McpError payload has the key
HasKey(error, key) == IsSome(error.data) /\ key \in DOMAIN Unwrap(error.data)

\* the backend call of the request returned this kind of error
ReturnedError(r, type) ==
    /\ IsSome(ret[r])
    /\ ~Unwrap(ret[r]).ok
    /\ ErrorType(Unwrap(ret[r]).err) = type

\* the resolver's availability query has ended with an Output
QueryDone(r) ==
    /\ IsVersionInstall(r)
    /\ Len(cmds[r]) >= 1
    /\ IsSome(cmds[r][1].output)

\* the lines of the availability query's stdout, as text
QueryLines(r) == lines(from_utf8_lossy(Unwrap(cmds[r][1].output).stdout))

\* the resolver is past its decision (install / reject)
Decided(r) ==
    /\ QueryDone(r)
    /\ pc[r] \in {"running", "exited", "returned", "done"}
    /\ ~(pc[r] \in {"running", "exited"} /\ phase[r] = "query")

RECURSIVE IsAscending(_)
\* strictly ascending in String order: sorted and free of duplicates
IsAscending(v) ==
    Len(v) <= 1 \/ (str_lt(v[1], v[2]) /\ IsAscending(Tail(v)))

Elements(v) == {v[i] : i \in 1..Len(v)}

---------------------------------------------------------------------------
(* C1 *)

\* C1: in install_package_with_version, a package name or version with a
\* character outside the backend's whitelist makes the call fail with a
\* validation_error and no subprocess call is ever made for the request;
\* with both inputs whitelisted the call never fails validation and, once
\* the task has run, it is at or past the availability query.
C1_ValidationBeforeSpawn ==
    \A r \in Reqs :
        (IsVersionInstall(r) /\ IsSome(options[r])) =>
            IF Whitelisted(Unwrap(options[r]).package)
               /\ Whitelisted(Unwrap(options[r]).version)
            THEN /\ ~ReturnedError(r, "validation_error")
                 /\ (Served(r) /\ pc[r] \notin {"queued", "validated"}) =>
                        /\ Len(cmds[r]) >= 1
                        /\ cmds[r][1].command =
                             IF backend = "APK"
                             THEN apk_search_command(
                                    [query |-> Unwrap(options[r]).package,
                                     repository |-> None])
                             ELSE apt_madison_command(Unwrap(options[r]))
            ELSE /\ cmds[r] = <<>>
                 /\ pc[r] \in {"queued", "returned", "done"}
                 /\ pc[r] = "returned" => ReturnedError(r, "validation_error")
                 /\ (pc[r] = "done" /\ joined[r] = "ok") =>
                        /\ Unwrap(resp[r]).kind = "mcp_error"
                        /\ ErrorType(Unwrap(resp[r]).error) = "validation_error"

\* a request with a bad character has been answered with validation_error
C1_Witness ==
    \E r \in Reqs :
        /\ IsVersionInstall(r)
        /\ pc[r] = "done"
        /\ joined[r] = "ok"
        /\ ~Whitelisted(Unwrap(options[r]).version)
        /\ Whitelisted(Unwrap(options[r]).package)
        /\ ErrorType(Unwrap(resp[r]).error) = "validation_error"

---------------------------------------------------------------------------
(* C2 *)

\* the caller-supplied package name / version strings of the request
CallerStrings(r) ==
    CASE request[r].name = "install_package" -> {Unwrap(options[r]).package}
      [] request[r].name = "install_package_with_version" ->
            {Unwrap(options[r]).package, Unwrap(options[r]).version}
      [] request[r].name = "search_package" -> {Unwrap(options[r]).query}
      [] OTHER -> {}

\* C2: whenever a request has made a subprocess call, every package name /
\* version string it took from the caller satisfies the whitelist.
C2_SpawnedOnlyWhitelisted ==
    \A r \in Reqs :
        cmds[r] # <<>> => \A text \in CallerStrings(r) : Whitelisted(text)

---------------------------------------------------------------------------
(* C3 *)

\* "extra-7.0"
str_extra_rest == <<101, 120, 116, 114, 97, 45, 55, 46, 48>>

\* C3: in the APK resolver with target "curl", the line "curl-extra-7.0"
\* (package curl-extra) yields no candidate; for the output lines
\* "curl-7.88.1-r1", "curl-extra-7.0" the candidates are exactly {"7.88.1-r1"}.
C3_PrefixBoundary ==
    \A r \in Reqs :
        (backend = "APK" /\ Decided(r) /\ Unwrap(options[r]).package = str_curl) =>
            /\ ~contains(found_versions[r], str_extra_rest)
            /\ QueryLines(r) = <<line_curl_v7, line_curl_extra>> =>
                   Elements(found_versions[r]) = {str_v7}

---------------------------------------------------------------------------
(* C4 *)

\* C4: in the APK resolver, when the requested version equals a parsed
\* candidate, exactly one install call follows the query, its arguments are
\* "add", every known repository in order, and "<package>=<version>", and
\* the ExecResult returned is that process's captured result: its exit code
\* as status (non-zero included), its stdout and stderr.
C4_ExactMatchInstalls ==
    \A r \in Reqs :
        (/\ backend = "APK"
         /\ Decided(r)
         /\ LET ls == QueryLines(r)
            IN \E i \in 1..Len(ls) :
                 ls[i] = Unwrap(options[r]).package \o str_hyphen
                         \o Unwrap(options[r]).version) =>
            /\ Len(cmds[r]) = 2
            /\ cmds[r][2].command.program = "apk"
            /\ LET args == cmds[r][2].command.args
                   n == Len(SEARCH_REPOSITORIES)
               IN /\ Len(args) = 2 * n + 2
                  /\ args[1] = Lit("add")
                  /\ \A i \in 1..n :
                        /\ args[2 * i] = Lit("--repository")
                        /\ args[2 * i + 1] = Lit(SEARCH_REPOSITORIES[i])
                  /\ args[2 * n + 2] =
                        Txt(Unwrap(options[r]).package \o str_equals
                            \o Unwrap(options[r]).version)
            /\ (pc[r] \in {"returned", "done"} /\ cmds[r][2].started) =>
                  LET out == Unwrap(cmds[r][2].output)
                      res == Unwrap(ret[r])
                  IN /\ res.ok
                     /\ IsSome(out.code) => res.val.status = Unwrap(out.code)
                     /\ res.val.stdout =
                          IF out.stdout = <<>> THEN None
                          ELSE Some(from_utf8_lossy(out.stdout))
                     /\ res.val.stderr =
                          IF out.stderr = <<>> THEN None
                          ELSE Some(from_utf8_lossy(out.stderr))

\* the pinned install ran, exited with a non-zero code, and was returned
C4_Witness ==
    \E r \in Reqs :
        /\ backend = "APK"
        /\ Decided(r)
        /\ pc[r] = "returned"
        /\ Len(cmds[r]) = 2
        /\ cmds[r][2].started
        /\ Unwrap(cmds[r][2].output).code = Some(1)
        /\ Unwrap(ret[r]).ok
        /\ Unwrap(ret[r]).val.status = 1

---------------------------------------------------------------------------
(* C5 *)

\* C5: in the APK resolver, when candidates were parsed and none equals the
\* requested version, the call fails with version_not_found and its
\* available_versions is ascending, free of duplicates, and has exactly the
\* parsed candidates as its elements.
C5_VersionNotFoundList ==
    \A r \in Reqs :
        (/\ backend = "APK"
         /\ Decided(r)
         /\ found_versions[r] # <<>>
         /\ ~contains(found_versions[r], Unwrap(options[r]).version)) =>
            /\ Len(cmds[r]) = 1
            /\ ReturnedError(r, "version_not_found")
            /\ LET listed == Unwrap(Unwrap(ret[r]).err.data).available_versions
               IN /\ IsAscending(listed)
                  /\ Elements(listed) = Elements(found_versions[r])

\* version_not_found after candidates that arrived repeated or out of order
C5_Witness ==
    \E r \in Reqs :
        /\ backend = "APK"
        /\ Decided(r)
        /\ ReturnedError(r, "version_not_found")
        /\ Len(found_versions[r]) = 2
        /\ found_versions[r] #
             Unwrap(Unwrap(ret[r]).err.data).available_versions

---------------------------------------------------------------------------
(* C6 *)

\* C6: in the APK resolver, when no line of the search output begins with
\* "<package>-", the call fails with package_not_found, the payload's
\* searched_repositories is the static repository list, and the search is
\* the only subprocess call of the request.
C6_PackageNotFound ==
    \A r \in Reqs :
        (/\ backend = "APK"
         /\ Decided(r)
         /\ LET ls == QueryLines(r)
            IN \A i \in 1..Len(ls) :
                 ~starts_with(ls[i], Unwrap(options[r]).package \o str_hyphen)) =>
            /\ ReturnedError(r, "package_not_found")
            /\ Unwrap(Unwrap(ret[r]).err.data).searched_repositories
                 = SEARCH_REPOSITORIES
            /\ Len(cmds[r]) = 1

\* package_not_found after a search that printed lines of other packages
C6_Witness ==
    \E r \in Reqs :
        /\ backend = "APK"
        /\ Decided(r)
        /\ QueryLines(r) # <<>>
        /\ ReturnedError(r, "package_not_found")


---------------------------------------------------------------------------
(* C7 *)

\* the arguments each tool requires
RequiredKeys(name) ==
    CASE name = "install_package" -> {"package_name"}
      [] name = "install_package_with_version" -> {"package_name", "version"}
      [] name = "search_package" -> {"query"}
      [] OTHER -> {}

\* the request carries no value under the key
Lacks(req, key) ==
    ~IsSome(req.arguments) \/ Unwrap(req.arguments)[key].t = "absent"

\* C7: a request that lacks a required argument is answered with an
\* invalid_params error; no blocking task and no subprocess call is made.
C7_MissingArgument ==
    \A r \in Reqs :
        (/\ pc[r] # "idle"
         /\ \E key \in RequiredKeys(request[r].name) : Lacks(request[r], key)) =>
            /\ pc[r] = "done"
            /\ Unwrap(resp[r]).kind = "mcp_error"
            /\ Unwrap(resp[r]).error.code = "invalid_params"
            /\ tasks[r] = 0
            /\ joined[r] = "pending"
            /\ cmds[r] = <<>>

\* install_package_with_version with a package name and no version, answered
C7_Witness ==
    \E r \in Reqs :
        /\ IsVersionInstall(r)
        /\ pc[r] = "done"
        /\ ~Lacks(request[r], "package_name")
        /\ Lacks(request[r], "version")
        /\ Unwrap(resp[r]).error.code = "invalid_params"

---------------------------------------------------------------------------
(* C8 *)

\* C8: a request for a tool name outside the five known ones is answered
\* with an error result whose text names the tool; no task, no subprocess,
\* never a success, and the handler keeps serving (the next request can be
\* taken).
C8_UnknownTool ==
    \A r \in Reqs :
        (pc[r] # "idle" /\ request[r].name \notin ToolNames) =>
            /\ pc[r] = "done"
            /\ Unwrap(resp[r]).kind = "tool_error"
            /\ Unwrap(resp[r]).is_error
            /\ contains(Unwrap(resp[r]).content, Lit(request[r].name))
            /\ tasks[r] = 0
            /\ cmds[r] = <<>>
            /\ server = "serving"
            /\ ENABLED NextRequest(r)

\* an unknown tool name has been answered
C8_Witness ==
    \E r \in Reqs :
        /\ request[r].name = UnknownTool
        /\ pc[r] = "done"
        /\ IsSome(resp[r])

---------------------------------------------------------------------------
(* C9 *)

\* the backend call returned Ok(ExecResult)
ReturnedResult(r) == IsSome(ret[r]) /\ Unwrap(ret[r]).ok

\* C9: for each of the five tools the response is a success exactly when
\* the subprocess ran and exited with status 0, and for a non-zero status
\* it is a failure whose payload has the exit code and every captured
\* stream that is not empty, stdout and stderr.
C9_ExitCodePolicy ==
    \A r \in Reqs :
        (pc[r] = "done" /\ request[r].name \in ToolNames) =>
            /\ Unwrap(resp[r]).kind = "success" <=>
                  (ReturnedResult(r) /\ Unwrap(ret[r]).val.status = 0)
            /\ (ReturnedResult(r) /\ Unwrap(ret[r]).val.status # 0) =>
                  LET res == Unwrap(ret[r]).val
                      error == Unwrap(resp[r]).error
                  IN /\ HasKey(error, "exit_code")
                     /\ Unwrap(error.data).exit_code = res.status
                     /\ IsSome(res.stdout) =>
                           /\ HasKey(error, "stdout")
                           /\ Unwrap(error.data).stdout = Unwrap(res.stdout)
                     /\ IsSome(res.stderr) =>
                           /\ HasKey(error, "stderr")
                           /\ Unwrap(error.data).stderr = Unwrap(res.stderr)

---------------------------------------------------------------------------
(* C10 *)

\* the last Command::output() call of the request could not start its program
SpawnFailed(r) == cmds[r] # <<>> /\ ~LastCmd(r).started

\* C10: when the program cannot be started the response is a failure with
\* no exit code and none of the error types validation_error,
\* package_not_found, version_not_found, never a success; an exit-code
\* failure always has an exit code and the three resolver errors keep their
\* error type, so the spawn failure differs from each of them.
C10_SpawnFailureDistinct ==
    \A r \in Reqs :
        (pc[r] = "done" /\ joined[r] = "ok") =>
            /\ SpawnFailed(r) =>
                  /\ Unwrap(resp[r]).kind = "mcp_error"
                  /\ Unwrap(resp[r]).error.code = "internal_error"
                  /\ ~HasKey(Unwrap(resp[r]).error, "exit_code")
                  /\ ErrorType(Unwrap(resp[r]).error) \in {"system_error", "none"}
            /\ (ReturnedResult(r) /\ Unwrap(ret[r]).val.status # 0) =>
                  HasKey(Unwrap(resp[r]).error, "exit_code")
            /\ \A type \in {"validation_error", "package_not_found",
                            "version_not_found"} :
                  ReturnedError(r, type) =>
                      ErrorType(Unwrap(resp[r]).error) = type

\* the pinned install of install_package_with_version could not be started
C10_Witness ==
    \E r \in Reqs :
        /\ IsVersionInstall(r)
        /\ pc[r] = "done"
        /\ joined[r] = "ok"
        /\ Len(cmds[r]) = 2
        /\ SpawnFailed(r)


---------------------------------------------------------------------------
(* C11 *)

\* the response of the request reports the failed subprocess call i: it is
\* a failure whose payload has that process's status and its non-empty
\* streams (the stdout of list_installed_packages is the subject of C9)
ReportsFailure(r, i) ==
    LET res == ExecResultFrom(Unwrap(cmds[r][i].output))
        answer == Unwrap(resp[r])
    IN /\ answer.kind = "mcp_error"
       /\ HasKey(answer.error, "exit_code")
       /\ Unwrap(answer.error.data).exit_code = res.status
       /\ IsSome(res.stderr) =>
             /\ HasKey(answer.error, "stderr")
             /\ Unwrap(answer.error.data).stderr = Unwrap(res.stderr)
       /\ (IsSome(res.stdout) /\ request[r].name # "list_installed_packages") =>
             /\ HasKey(answer.error, "stdout")
             /\ Unwrap(answer.error.data).stdout = Unwrap(res.stdout)

\* C11: every subprocess of a request that ended with a non-zero status,
\* the availability query of install_package_with_version included, is
\* reported by the response: a failure with that exit code and output.
C11_NoFailureSwallowed ==
    \A r \in Reqs :
        (pc[r] = "done" /\ joined[r] = "ok") =>
            \A i \in 1..Len(cmds[r]) :
                (/\ cmds[r][i].started
                 /\ IsSome(cmds[r][i].output)
                 /\ Unwrap(cmds[r][i].output).code # Some(0)) =>
                    ReportsFailure(r, i)

---------------------------------------------------------------------------
(* C12 *)

\* the availability query of install_package_with_version on the active backend
query_command(opts) ==
    IF backend = "APK"
    THEN apk_search_command([query |-> opts.package, repository |-> None])
    ELSE apt_madison_command(opts)

\* the pinned install of install_package_with_version on the active backend
pinned_install_command(opts) ==
    IF backend = "APK" THEN apk_install_version_command(opts)
    ELSE apt_install_version_command(opts)

\* C12: no retries.  A request hands at most one command to the operating
\* system, or at most two for install_package_with_version: the availability
\* query first and then at most one pinned install; no command is handed over
\* twice, a command that could not start or that ended an operation with a
\* failure is the last one of its request, and the request has one blocking
\* task, whose result is turned into the one response.
C12_NoRetries ==
    \A r \in Reqs :
        /\ tasks[r] <= 1
        /\ \A i, j \in 1..Len(cmds[r]) :
               cmds[r][i].command = cmds[r][j].command => i = j
        /\ \A i \in 1..Len(cmds[r]) : ~cmds[r][i].started => i = Len(cmds[r])
        /\ IF IsVersionInstall(r)
           THEN /\ Len(cmds[r]) <= 2
                /\ Len(cmds[r]) >= 1 =>
                      cmds[r][1].command = query_command(Unwrap(options[r]))
                /\ Len(cmds[r]) = 2 =>
                      cmds[r][2].command = pinned_install_command(Unwrap(options[r]))
           ELSE Len(cmds[r]) <= 1

\* a pinned install that failed after its query, and its one response
C12_Witness ==
    \E r \in Reqs :
        /\ pc[r] = "done"
        /\ IsVersionInstall(r)
        /\ Len(cmds[r]) = 2
        /\ cmds[r][2].started
        /\ Unwrap(cmds[r][2].output).code # Some(0)
        /\ Unwrap(resp[r]).kind = "mcp_error"

---------------------------------------------------------------------------
(* C13 *)

\* the request passed argument extraction and, for
\* install_package_with_version, validation
Admitted(r) ==
    /\ request[r].name \in ToolNames
    /\ extract_options(request[r]).ok
    /\ IsVersionInstall(r) =>
          /\ validate_package_version_input(Unwrap(options[r]).package)
          /\ validate_package_version_input(Unwrap(options[r]).version)

\* what the backend operation returns, read off the request's own
\* subprocesses when every one of them started
OwnOutcome(r) ==
    IF ~IsVersionInstall(r)
    THEN Ok(ExecResultFrom(Unwrap(cmds[r][1].output)))
    ELSE LET found == parsed_versions(Unwrap(cmds[r][1].output), Unwrap(options[r]))
             exact == contains(found, Unwrap(options[r]).version)
         IN IF install_branch(found, exact)
            THEN Ok(ExecResultFrom(Unwrap(cmds[r][2].output)))
            ELSE Err(resolver_error(found, Unwrap(options[r])))

\* the response is the one that the request's own subprocesses give
DeterminedByOwnSubprocess(r) ==
    /\ Len(cmds[r]) >= 1
    /\ IF \A i \in 1..Len(cmds[r]) : cmds[r][i].started
       THEN resp[r] = Some(response(request[r], options[r], backend, OwnOutcome(r)))
       ELSE /\ Unwrap(resp[r]).kind = "mcp_error"
            /\ ~HasKey(Unwrap(resp[r]).error, "exit_code")

\* C13: nothing is cached.  Whatever was served before on the connection,
\* a request that passed extraction and validation and whose blocking task
\* ran has handed its own command to the operating system, and its response
\* is the one that follows from the outcome of its own subprocesses.
C13_NoCaching ==
    \A r \in Reqs :
        (pc[r] = "done" /\ joined[r] = "ok" /\ Admitted(r)) =>
            DeterminedByOwnSubprocess(r)

\* the same request served twice in a row, with different outcomes
C13_Witness ==
    \E r \in Reqs :
        /\ pc[r] = "done"
        /\ joined[r] = "ok"
        /\ Admitted(r)
        /\ IsSome(previous[r])
        /\ Unwrap(previous[r]).request = request[r]
        /\ Unwrap(previous[r]).resp # Unwrap(resp[r])
        /\ Unwrap(previous[r]).resp.kind = "success"
        /\ Len(cmds[r]) >= 1

---------------------------------------------------------------------------
(* C14 *)

\* everything a request in slot q holds
Slot(q) ==
    <<pc[q], request[q], options[q], phase[q], cmds[q], found_versions[q],
      version_found[q], ret[q], tasks[q], joined[q], resp[q], previous[q]>>

\* the response is the one that follows from the request's own name,
\* arguments and subprocess outcomes
OwnResponse(r) ==
    IF joined[r] = "failed"
    THEN resp[r] = Some(join_error(request[r], options[r]))
    ELSE IF Admitted(r)
    THEN DeterminedByOwnSubprocess(r)
    ELSE IF request[r].name \notin ToolNames
    THEN resp[r] = Some(unknown_tool(request[r].name))
    ELSE Unwrap(resp[r]).kind = "mcp_error"

\* a step is the step of one request: it leaves the other requests alone
OneSlotStep == \E r \in Reqs : \A q \in Reqs \ {r} : Slot(q)' = Slot(q)

\* C14: requests in flight together do not interfere.  Under every
\* interleaving each response is the one given by the request's own name,
\* arguments and subprocess outcomes, and no step of one request changes
\* anything another request holds.
C14_NoInterference ==
    /\ [](\A r \in Reqs : pc[r] = "done" => OwnResponse(r))
    /\ [][OneSlotStep]_vars

\* two requests in flight together, the same request on both slots: one is
\* answered with a success while the other's subprocess has failed
C14_Witness ==
    \E r, q \in Reqs :
        /\ r # q
        /\ request[r] = request[q]
        /\ pc[r] = "done"
        /\ Unwrap(resp[r]).kind = "success"
        /\ pc[q] = "exited"
        /\ Unwrap(LastCmd(q).output).code # Some(0)

---------------------------------------------------------------------------
(* C15 *)

RECURSIVE RepositoryValues(_)
\* the values that follow the --repository flags of an argument list, in order
RepositoryValues(args) ==
    IF Len(args) < 2 THEN <<>>
    ELSE IF Head(args) = Lit("--repository")
    THEN <<args[2]>> \o RepositoryValues(SubSeq(args, 3, Len(args)))
    ELSE RepositoryValues(Tail(args))

\* the known repositories, as arguments
KnownRepositories == [i \in 1..Len(SEARCH_REPOSITORIES) |-> Lit(SEARCH_REPOSITORIES[i])]

\* C15: the command of an APK search_package request scans the given
\* repository and no other when one is given, and otherwise the known
\* repositories, each once, in the order of the list.
C15_SearchRepositories ==
    \A r \in Reqs :
        (/\ backend = "APK"
         /\ request[r].name = "search_package"
         /\ Len(cmds[r]) >= 1) =>
            LET scanned == RepositoryValues(cmds[r][1].command.args)
            IN IF IsSome(Unwrap(options[r]).repository)
               THEN scanned = <<Txt(Unwrap(Unwrap(options[r]).repository))>>
               ELSE scanned = KnownRepositories

\* a search in a given repository has been handed to the operating system
C15_Witness ==
    \E r \in Reqs :
        /\ backend = "APK"
        /\ request[r].name = "search_package"
        /\ Len(cmds[r]) >= 1
        /\ IsSome(Unwrap(options[r]).repository)
        /\ pc[r] = "done"

---------------------------------------------------------------------------
(* C16 *)

\* a search_package request answered with a success
SearchSucceeded(r) ==
    /\ pc[r] = "done"
    /\ request[r].name = "search_package"
    /\ Unwrap(resp[r]).kind = "success"

\* the lines the search subprocess wrote to its standard output
OutputLines(r) == lines(from_utf8_lossy(Unwrap(cmds[r][1].output).stdout))

\* the output lines that do not begin with "fetch "
OtherLines(r) == SelectSeq(OutputLines(r), LAMBDA l : ~starts_with(l, str_fetch))

\* the response lists results (it is not the "no packages were found" text)
ListsResults(r) == Len(Unwrap(resp[r]).content) = 4

\* the lines of the response that come from the subprocess output
ResultLines(r) ==
    IF ~ListsResults(r) \/ Unwrap(resp[r]).content[4].txt = <<>> THEN <<>>
    ELSE split(Unwrap(resp[r]).content[4].txt, Head(NL))

\* C16 as stated: a successful search_package response has no output line
\* that begins with "fetch " and has every other output line, unchanged and
\* in the original order.
C16_SearchLinesKept ==
    \A r \in Reqs :
        SearchSucceeded(r) =>
            LET listed == ResultLines(r) IN
            /\ \A i \in 1..Len(listed) : ~starts_with(listed[i], str_fetch)
            /\ listed = OtherLines(r)

\* the output has a character that is not white space
HasText(r) ==
    LET ls == OutputLines(r)
    IN \E i \in 1..Len(ls) : \E k \in 1..Len(ls[i]) : ~is_whitespace(ls[i][k])

\* C16 (amended): a successful search_package response has no output line
\* that begins with "fetch "; when the output has a character that is not
\* white space the response lists every other output line, unchanged and in
\* the original order, and when the output is empty or white space only the
\* response is the "no packages were found" text with no output line.
C16_SearchLinesKeptIfText ==
    \A r \in Reqs :
        SearchSucceeded(r) =>
            LET listed == ResultLines(r) IN
            /\ \A i \in 1..Len(listed) : ~starts_with(listed[i], str_fetch)
            /\ IF HasText(r)
               THEN ListsResults(r) /\ listed = OtherLines(r)
               ELSE ~ListsResults(r)

\* a search whose output has a "fetch " line and a result line
C16_Witness ==
    \E r \in Reqs :
        /\ SearchSucceeded(r)
        /\ Len(OutputLines(r)) = 2
        /\ starts_with(OutputLines(r)[1], str_fetch)
        /\ OtherLines(r) = <<OutputLines(r)[2]>>
        /\ ListsResults(r)

---------------------------------------------------------------------------
(* C17 *)

\* the backend the marker files call for
SelectedBackend ==
    IF alpine_release THEN "APK" ELSE IF debian_version THEN "APT" ELSE "none"

\* after startup the backend is the one the marker files call for; with
\* neither marker startup has failed, nothing listens and no request is taken
BackendFromMarkers ==
    /\ server # "starting" => backend = SelectedBackend
    /\ server = "fatal" <=> (server # "starting" /\ SelectedBackend = "none")
    /\ server = "serving" => backend \in {"APK", "APT"}
    /\ server # "serving" => \A r \in Reqs : pc[r] = "idle"

\* once main() has selected, no step changes the backend or starts the
\* server again
BackendFixed ==
    server # "starting" => (backend' = backend /\ server' = server)

\* C17: the backend is selected once, at startup, from the marker files
\* (Alpine first, then Debian; with neither, startup is fatal and the server
\* never listens), and it never changes afterwards, so every request of a
\* run is served by the same backend.
C17_BackendSelectedOnce ==
    /\ []BackendFromMarkers
    /\ [][BackendFixed]_vars

\* both markers exist: requests are being served by the APK backend
C17_Witness ==
    /\ alpine_release
    /\ debian_version
    /\ server = "serving"
    /\ backend = "APK"
    /\ \E r \in Reqs : pc[r] = "done" /\ Len(cmds[r]) >= 1

---------------------------------------------------------------------------
(* C18 *)

\* the fields of a madison line: the pieces between the "|" characters
MadisonFields(line) == split(line, 124)

\* the versions the availability check of the APT resolver yields: none when
\* apt-cache madison did not exit with 0, otherwise the second field,
\* trimmed, of every line that has one
MadisonVersions(r) ==
    IF Unwrap(cmds[r][1].output).code # Some(0) THEN {}
    ELSE LET ls == QueryLines(r)
             fields == [i \in 1..Len(ls) |-> MadisonFields(ls[i])]
         IN {trim(fields[i][2]) : i \in {k \in 1..Len(ls) : Len(fields[k]) >= 2}}

\* C18: on the APT backend the resolver attempts the pinned install
\* `apt-get install -y <package>=<version>` whenever the availability check
\* yields no version, and returns that install's ExecResult; it never fails
\* with package_not_found, and it fails with version_not_found exactly when
\* some version was parsed and none equals the requested one.
C18_AptInstallsUnverified ==
    \A r \in Reqs :
        (backend = "APT" /\ Decided(r)) =>
            LET versions == MadisonVersions(r) IN
            /\ ~ReturnedError(r, "package_not_found")
            /\ versions = {} =>
                  /\ Len(cmds[r]) = 2
                  /\ cmds[r][2].command.program = "apt-get"
                  /\ cmds[r][2].command.args =
                        <<Lit("install"), Lit("-y"),
                          Txt(Unwrap(options[r]).package \o <<61>>
                              \o Unwrap(options[r]).version)>>
                  /\ (pc[r] \in {"returned", "done"} /\ cmds[r][2].started) =>
                        ret[r] = Some(Ok(ExecResultFrom(Unwrap(cmds[r][2].output))))
            /\ (pc[r] \in {"returned", "done"}) =>
                  (ReturnedError(r, "version_not_found") <=>
                      /\ versions # {}
                      /\ Unwrap(options[r]).version \notin versions)

\* apt-cache madison failed after printing a version line, and the pinned
\* install ran and returned its result
C18_Witness ==
    \E r \in Reqs :
        /\ backend = "APT"
        /\ Decided(r)
        /\ Unwrap(cmds[r][1].output).code = Some(1)
        /\ \E i \in 1..Len(QueryLines(r)) : Len(MadisonFields(QueryLines(r)[i])) >= 2
        /\ pc[r] = "done"
        /\ Len(cmds[r]) = 2
        /\ ReturnedResult(r)

---------------------------------------------------------------------------
(* C19 *)

\* C19: in the APT resolver, when versions were parsed from apt-cache
\* madison and none equals the requested version, the call fails with
\* version_not_found and its available_versions is sorted, free of
\* duplicates, and has exactly the parsed versions as its elements.
C19_AptVersionNotFoundList ==
    \A r \in Reqs :
        (/\ backend = "APT"
         /\ Decided(r)
         /\ MadisonVersions(r) # {}
         /\ Unwrap(options[r]).version \notin MadisonVersions(r)) =>
            /\ Len(cmds[r]) = 1
            /\ ReturnedError(r, "version_not_found")
            /\ LET listed == Unwrap(Unwrap(ret[r]).err.data).available_versions
               IN /\ IsAscending(listed)
                  /\ Elements(listed) = MadisonVersions(r)

---------------------------------------------------------------------------
(* C20 *)

\* some line of the search output is exactly <package>-<version>
ExactLine(r) ==
    LET ls == QueryLines(r)
    IN \E i \in 1..Len(ls) :
         ls[i] = Unwrap(options[r]).package \o <<45>> \o Unwrap(options[r]).version

\* what holds of the commands an APK resolver has handed over so far
ResolverOrder(r) ==
    /\ Len(cmds[r]) >= 1 =>
          /\ Whitelisted(Unwrap(options[r]).package)
          /\ Whitelisted(Unwrap(options[r]).version)
          /\ "search" \in {a.lit : a \in Elements(cmds[r][1].command.args)}
    /\ Len(cmds[r]) >= 2 =>
          /\ cmds[r][1].started
          /\ IsSome(cmds[r][1].output)
          /\ version_found[r]
          /\ ExactLine(r)
          /\ "add" \in {a.lit : a \in Elements(cmds[r][2].command.args)}
    /\ (ReturnedError(r, "package_not_found") \/ ReturnedError(r, "version_not_found")) =>
          Len(cmds[r]) = 1

\* a command is handed over only from the step before it: the search once
\* the validation is through, the install once the search output is parsed
\* and an exact match is recorded
ResolverStep(r) ==
    Len(cmds'[r]) > Len(cmds[r]) =>
        /\ Len(cmds'[r]) = Len(cmds[r]) + 1
        /\ Len(cmds[r]) = 0 => pc[r] = "validated"
        /\ Len(cmds[r]) = 1 => (pc[r] = "parsed" /\ version_found[r])

\* C20: the steps of the APK version resolver are strictly ordered: the
\* validation completes before the search is spawned, the search completes
\* before an install is spawned, an install is spawned only when an exact
\* version match was recorded, and none is spawned on the package_not_found
\* and version_not_found outcomes.
C20_ResolverOrder ==
    /\ [](\A r \in Reqs : (backend = "APK" /\ IsVersionInstall(r)) => ResolverOrder(r))
    /\ [][\A r \in Reqs : (backend = "APK" /\ IsVersionInstall(r)) => ResolverStep(r)]_vars

\* the APK resolver has spawned its install after a search with a match
C20_Witness ==
    \E r \in Reqs :
        /\ backend = "APK"
        /\ IsVersionInstall(r)
        /\ Len(cmds[r]) = 2
        /\ version_found[r]
        /\ pc[r] = "running"

---------------------------------------------------------------------------
(* C21 *)

\* a response is there exactly when the request is done, and by then every
\* subprocess the request started has ended
RespondsAfterExit(r) ==
    /\ IsSome(resp[r]) <=> pc[r] = "done"
    /\ IsSome(resp[r]) =>
          \A i \in 1..Len(cmds[r]) : cmds[r][i].started => IsSome(cmds[r][i].output)

\* a response, once given, is not replaced: it stays until the slot is
\* handed to the next request
RespondsOnce(r) ==
    IsSome(resp[r]) => (resp'[r] = resp[r] \/ (resp'[r] = None /\ pc'[r] = "idle"))

\* C21: every request receives exactly one response, a request that spawned
\* a subprocess responds only after that subprocess has ended, and, every
\* started subprocess ending, every request in flight eventually receives
\* its response.
C21_OneResponseEventually ==
    /\ [](\A r \in Reqs : RespondsAfterExit(r))
    /\ [][\A r \in Reqs : RespondsOnce(r)]_vars
    /\ \A r \in Reqs : (pc[r] # "idle") ~> (pc[r] = "done")

\* a request answered after its two subprocesses have ended
C21_Witness ==
    \E r \in Reqs :
        /\ pc[r] = "done"
        /\ joined[r] = "ok"
        /\ Len(cmds[r]) = 2
        /\ IsSome(cmds[r][2].output)

---------------------------------------------------------------------------
(* C22 *)

\* C22: for each of the five operations, when the blocking task fails (join
\* error) the request ends in an internal_error failure with no payload, so
\* with no exit code, and never in a success; a subprocess that ran and
\* ended with a non-zero status is answered with a failure that has an exit
\* code, so the two differ.
C22_JoinErrorDistinct ==
    \A r \in Reqs :
        pc[r] = "done" =>
            /\ joined[r] = "failed" =>
                  /\ request[r].name \in ToolNames
                  /\ Unwrap(resp[r]).kind = "mcp_error"
                  /\ Unwrap(resp[r]).error.code = "internal_error"
                  /\ Unwrap(resp[r]).error.data = None
            /\ (ReturnedResult(r) /\ Unwrap(ret[r]).val.status # 0) =>
                  /\ joined[r] = "ok"
                  /\ Unwrap(resp[r]).kind = "mcp_error"
                  /\ HasKey(Unwrap(resp[r]).error, "exit_code")

\* the blocking task of an install_package_with_version request has failed
C22_Witness ==
    \E r \in Reqs :
        /\ pc[r] = "done"
        /\ joined[r] = "failed"
        /\ IsVersionInstall(r)
        /\ Unwrap(resp[r]).kind = "mcp_error"

---------------------------------------------------------------------------
(* C23 *)

\* the operations whose backend call runs one command
SimpleTools ==
    {"install_package", "search_package", "list_installed_packages",
     "refresh_repositories"}

\* C23: install_package, search_package, list_installed_packages and
\* refresh_repositories do not classify the exit code in the backend: the
\* backend call returns Ok(ExecResult) exactly when the subprocess could be
\* started, with the exit status as it is, zero or not, and returns an error
\* exactly when the subprocess could not be started.
C23_BackendDoesNotClassify ==
    \A r \in Reqs :
        (request[r].name \in SimpleTools /\ IsSome(ret[r])) =>
            /\ Len(cmds[r]) = 1
            /\ Unwrap(ret[r]).ok <=> cmds[r][1].started
            /\ cmds[r][1].started =>
                  LET code == Unwrap(cmds[r][1].output).code
                  IN IsSome(code) => Unwrap(ret[r]).val.status = Unwrap(code)

\* a backend call that returned Ok with a non-zero status
C23_Witness ==
    \E r \in Reqs :
        /\ request[r].name \in SimpleTools
        /\ ReturnedResult(r)
        /\ Unwrap(ret[r]).val.status = 1

---------------------------------------------------------------------------
(* C24 *)

\* an APT search_package request for the query
AptSearch(r, query) ==
    /\ backend = "APT"
    /\ request[r].name = "search_package"
    /\ IsSome(options[r])
    /\ Unwrap(options[r]).query = query

\* C24: on the APT backend the repository argument of search_package is not
\* used.  Two search requests with the same query, whatever their repository
\* arguments, hand over the same command, `apt-cache search <query>`, and
\* with the same subprocess outcome they get the same response.
C24_AptSearchIgnoresRepository ==
    \A r, q \in Reqs : \A query \in Queries :
        (AptSearch(r, query) /\ AptSearch(q, query)) =>
            /\ Len(cmds[r]) >= 1 =>
                  /\ cmds[r][1].command.program = "apt-cache"
                  /\ cmds[r][1].command.env = {}
                  /\ cmds[r][1].command.args = <<Lit("search"), Txt(query)>>
            /\ (/\ pc[r] = "done"
                /\ pc[q] = "done"
                /\ joined[r] = joined[q]
                /\ [i \in 1..Len(cmds[r]) |-> <<cmds[r][i].started, cmds[r][i].output>>]
                     = [i \in 1..Len(cmds[q]) |-> <<cmds[q][i].started, cmds[q][i].output>>]) =>
                  resp[r] = resp[q]

\* two APT searches for the same query, one of them within a repository,
\* answered after the same subprocess outcome
C24_Witness ==
    \E r, q \in Reqs :
        /\ AptSearch(r, str_curl)
        /\ AptSearch(q, str_curl)
        /\ IsSome(Unwrap(options[r]).repository)
        /\ ~IsSome(Unwrap(options[q]).repository)
        /\ pc[r] = "done"
        /\ pc[q] = "done"
        /\ Len(cmds[r]) = 1
        /\ Len(cmds[q]) = 1
        /\ cmds[r][1].started
        /\ cmds[q][1].started
        /\ cmds[r][1].output = cmds[q][1].output
        /\ Unwrap(resp[r]).kind = "success"

---------------------------------------------------------------------------
(* C25 *)

\* the string the caller gave for the key
Given(r, key) == Unwrap(request[r].arguments)[key].s

\* whether the caller gave a string for the key
IsGiven(r, key) ==
    IsSome(request[r].arguments) /\ Unwrap(request[r].arguments)[key].t = "string"

\* one or more pairs of "--repository" and one further argument
RepositoryPairs(args) ==
    /\ Len(args) >= 2
    /\ Len(args) % 2 = 0
    /\ \A i \in 1..Len(args) : (i % 2 = 1) => args[i] = Lit("--repository")

\* the command the template of the operation gives for the caller's values
FollowsTemplate(r, command) ==
    LET args == command.args
        n == Len(args)
    IN  CASE request[r].name = "install_package" /\ backend = "APK" ->
                 /\ command.program = "apk"
                 /\ args = IF IsGiven(r, "repository")
                           THEN <<Lit("add"), Lit("--repository"),
                                  Txt(Given(r, "repository")), Txt(Given(r, "package_name"))>>
                           ELSE <<Lit("add"), Txt(Given(r, "package_name"))>>
          [] request[r].name = "install_package" /\ backend = "APT" ->
                 /\ command.program = "apt-get"
                 /\ args = IF IsGiven(r, "repository")
                           THEN <<Lit("install"), Lit("-y"), Lit("-o"),
                                  LitTxt("Dir::Etc::sourcelist=", Given(r, "repository")),
                                  Txt(Given(r, "package_name"))>>
                           ELSE <<Lit("install"), Lit("-y"), Txt(Given(r, "package_name"))>>
          [] request[r].name = "search_package" /\ backend = "APK" ->
                 /\ command.program = "apk"
                 /\ n >= 7
                 /\ args[1] = Lit("--no-cache")
                 /\ RepositoryPairs(SubSeq(args, 2, n - 4))
                 /\ IsGiven(r, "repository") =>
                        SubSeq(args, 2, n - 4)
                            = <<Lit("--repository"), Txt(Given(r, "repository"))>>
                 /\ SubSeq(args, n - 3, n)
                        = <<Lit("search"), Lit("--exact"), Lit("--all"),
                            Txt(Given(r, "query"))>>
          [] request[r].name = "search_package" /\ backend = "APT" ->
                 /\ command.program = "apt-cache"
                 /\ args = <<Lit("search"), Txt(Given(r, "query"))>>
          [] request[r].name = "refresh_repositories" /\ backend = "APK" ->
                 /\ command.program = "apk"
                 /\ args = <<Lit("update")>>
          [] request[r].name = "refresh_repositories" /\ backend = "APT" ->
                 /\ command.program = "apt-get"
                 /\ args = <<Lit("update")>>
          [] request[r].name = "list_installed_packages" /\ backend = "APK" ->
                 /\ command.program = "apk"
                 /\ args = <<Lit("list"), Lit("-I")>>
          [] request[r].name = "list_installed_packages" /\ backend = "APT" ->
                 /\ command.program = "apt"
                 /\ args = <<Lit("list"), Lit("--installed")>>
          [] OTHER -> FALSE

\* C25: install_package, search_package, refresh_repositories and
\* list_installed_packages hand over the fixed command of their family with
\* the caller's values only in the argument slots: apk add [--repository R] P,
\* apk --no-cache (--repository R)+ search --exact --all Q, apk update,
\* apk list -I, apt-get install -y [-o Dir::Etc::sourcelist=R] P,
\* apt-cache search Q, apt-get update, apt list --installed; each value of
\* the caller is one argument, whatever characters it holds.
C25_CommandTemplates ==
    \A r \in Reqs :
        (request[r].name \in SimpleTools /\ cmds[r] # <<>>) =>
            /\ Len(cmds[r]) = 1
            /\ FollowsTemplate(r, cmds[r][1].command)

\* an install of "a;b" from a repository was handed over and has ended
C25_Witness ==
    \E r \in Reqs :
        /\ request[r].name = "install_package"
        /\ IsGiven(r, "repository")
        /\ IsGiven(r, "package_name")
        /\ Given(r, "package_name") = str_bad_pkg
        /\ Len(cmds[r]) = 1
        /\ IsSome(cmds[r][1].output)
        /\ pc[r] = "done"

---------------------------------------------------------------------------
(* C26 *)

\* a version_not_found error lists candidates, none of them the version asked for
ListsOtherVersions(error, version) ==
    LET data == Unwrap(error.data)
    IN  /\ data.requested_version = version
        /\ data.available_versions # <<>>
        /\ ~contains(data.available_versions, version)

\* the pinned install was handed over
InstallAttempted(r) == IsVersionInstall(r) /\ Len(cmds[r]) = 2

\* how many of the three resolver outcomes the request has
OutcomeCount(r) ==
    (IF InstallAttempted(r) THEN 1 ELSE 0)
    + (IF ReturnedError(r, "package_not_found") THEN 1 ELSE 0)
    + (IF ReturnedError(r, "version_not_found") THEN 1 ELSE 0)

\* C26: every version_not_found failure, of the backend call and of the
\* response, on either backend, has an available_versions list that is not
\* empty and does not contain the requested version.  On APK the outcomes
\* install attempted, package_not_found and version_not_found exclude each
\* other, and once the input was accepted, the search ran and the resolver
\* has decided, exactly one of them holds.
C26_ResolverOutcomes ==
    \A r \in Reqs :
        /\ ReturnedError(r, "version_not_found") =>
              ListsOtherVersions(Unwrap(ret[r]).err, Unwrap(options[r]).version)
        /\ (/\ pc[r] = "done"
            /\ Unwrap(resp[r]).kind = "mcp_error"
            /\ ErrorType(Unwrap(resp[r]).error) = "version_not_found") =>
              ListsOtherVersions(Unwrap(resp[r]).error, Unwrap(options[r]).version)
        /\ (backend = "APK" /\ pc[r] # "idle") =>
              /\ OutcomeCount(r) <= 1
              /\ Decided(r) => OutcomeCount(r) = 1

\* version_not_found with two candidates has reached the caller on APK
C26_Witness ==
    \E r \in Reqs :
        /\ backend = "APK"
        /\ pc[r] = "done"
        /\ Decided(r)
        /\ ReturnedError(r, "version_not_found")
        /\ Len(Unwrap(Unwrap(resp[r]).error.data).available_versions) = 2

---------------------------------------------------------------------------
(* C27 *)

\* the request has a value for the key that is not a JSON string
NotAString(req, key) ==
    /\ IsSome(req.arguments)
    /\ Unwrap(req.arguments)[key].t \notin {"absent", "string"}

\* the required arguments of each tool in the order the dispatcher reads them
RequiredInOrder(name) ==
    CASE name = "install_package" -> <<"package_name">>
      [] name = "install_package_with_version" -> <<"package_name", "version">>
      [] name = "search_package" -> <<"query">>
      [] OTHER -> <<>>

\* the first required argument that is missing or not a string
FirstUnusable(req) ==
    LET keys == RequiredInOrder(req.name)
        i == CHOOSE i \in 1..Len(keys) :
                /\ Lacks(req, keys[i]) \/ NotAString(req, keys[i])
                /\ \A j \in 1..(i - 1) :
                      ~(Lacks(req, keys[j]) \/ NotAString(req, keys[j]))
    IN  keys[i]

\* C27: a required argument that is present but not a JSON string is treated
\* as a missing one: the answer is the invalid_params error "missing required
\* parameter: <key>" for the first required key that is missing or not a
\* string, with no blocking task and no subprocess.  A repository argument
\* that is not a string is treated as absent: the request goes on with no
\* repository in its options and its command is the one without the
\* caller's repository.
C27_NonStringArguments ==
    \A r \in Reqs :
        pc[r] # "idle" =>
            /\ (\E key \in RequiredKeys(request[r].name) : NotAString(request[r], key)) =>
                  /\ pc[r] = "done"
                  /\ resp[r] = Some(ToolFailure(invalid_params(
                        <<Lit("missing required parameter: "),
                          Lit(FirstUnusable(request[r]))>>, None)))
                  /\ tasks[r] = 0
                  /\ joined[r] = "pending"
                  /\ cmds[r] = <<>>
            /\ (/\ request[r].name \in {"install_package", "search_package"}
                /\ NotAString(request[r], "repository")
                /\ \A key \in RequiredKeys(request[r].name) : IsGiven(r, key)) =>
                  /\ tasks[r] = 1
                  /\ Unwrap(options[r]).repository = None
                  /\ cmds[r] # <<>> =>
                        LET args == cmds[r][1].command.args
                        IN  CASE request[r].name = "install_package" /\ backend = "APK" ->
                                     args = <<Lit("add"), Txt(Given(r, "package_name"))>>
                              [] request[r].name = "install_package" /\ backend = "APT" ->
                                     args = <<Lit("install"), Lit("-y"),
                                              Txt(Given(r, "package_name"))>>
                              [] request[r].name = "search_package" /\ backend = "APK" ->
                                     args = <<Lit("--no-cache")>> \o AllRepositoryArgs
                                            \o <<Lit("search"), Lit("--exact"), Lit("--all"),
                                                 Txt(Given(r, "query"))>>
                              [] OTHER ->
                                     args = <<Lit("search"), Txt(Given(r, "query"))>>

\* install_package_with_version with a name and a version that is a number,
\* answered
C27_Witness ==
    \E r \in Reqs :
        /\ IsVersionInstall(r)
        /\ pc[r] = "done"
        /\ IsGiven(r, "package_name")
        /\ NotAString(request[r], "version")
        /\ Unwrap(resp[r]).kind = "mcp_error"
        /\ Unwrap(resp[r]).error.code = "invalid_params"

---------------------------------------------------------------------------
(* C28 *)

\* install_package_with_version with an empty package name or an empty
\* version and nothing outside the whitelist
HasEmptyInput(r) ==
    /\ IsVersionInstall(r)
    /\ IsSome(options[r])
    /\ Unwrap(options[r]).package = <<>> \/ Unwrap(options[r]).version = <<>>
    /\ Whitelisted(Unwrap(options[r]).package)
    /\ Whitelisted(Unwrap(options[r]).version)

\* the rests of the lines that begin with "-", fetch lines and blank lines
\* left out
AfterHyphen(ls) ==
    {Tail(ls[i]) : i \in {j \in 1..Len(ls) :
        /\ ls[j] # <<>>
        /\ ls[j][1] = 45
        /\ ~starts_with(ls[j], str_fetch)
        /\ trim(ls[j]) # <<>>}}

\* C28: the whitelist validator accepts the empty string.  A request of
\* install_package_with_version with an empty package name or an empty
\* version is not answered with validation_error: once its task has run the
\* validation, the availability query for the empty or the given name is
\* handed over, and on APK with an empty package name the candidates are
\* the rests of the lines that begin with "-".
C28_EmptyInputAccepted ==
    \A r \in Reqs :
        (HasEmptyInput(r) /\ Served(r) /\ pc[r] # "queued") =>
            /\ ~ReturnedError(r, "validation_error")
            /\ pc[r] # "validated" =>
                  /\ Len(cmds[r]) >= 1
                  /\ cmds[r][1].command.program
                        = (IF backend = "APK" THEN "apk" ELSE "apt-cache")
                  /\ cmds[r][1].command.args[Len(cmds[r][1].command.args)]
                        = Txt(Unwrap(options[r]).package)
            /\ (/\ backend = "APK"
                /\ Unwrap(options[r]).package = <<>>
                /\ Decided(r)) =>
                  Elements(found_versions[r]) = AfterHyphen(QueryLines(r))

\* on APK the empty package name with version "1" met the line "-1" and the
\* pinned install of "=1" was handed over
C28_Witness ==
    \E r \in Reqs :
        /\ backend = "APK"
        /\ HasEmptyInput(r)
        /\ Unwrap(options[r]).package = <<>>
        /\ pc[r] = "done"
        /\ Decided(r)
        /\ found_versions[r] = <<str_one>>
        /\ Len(cmds[r]) = 2
        /\ cmds[r][2].command.args[Len(cmds[r][2].command.args)]
              = Txt(str_equals \o str_one)

---------------------------------------------------------------------------
(* C29 *)

\* a subprocess of the request was ended by a signal: it has no exit code
EndedBySignal(r) ==
    \E i \in 1..Len(cmds[r]) :
        /\ cmds[r][i].started
        /\ IsSome(cmds[r][i].output)
        /\ ~IsSome(Unwrap(cmds[r][i].output).code)

\* C29: when a subprocess of the request ended without an exit code the
\* response is a failure with exit code -1, never a success; and in the
\* ExecResult the backend returns, stdout and stderr are absent exactly when
\* the captured stream was empty, never present with an empty text.
C29_SignalIsFailure ==
    \A r \in Reqs :
        (pc[r] = "done" /\ joined[r] = "ok") =>
            /\ EndedBySignal(r) =>
                  /\ Unwrap(resp[r]).kind = "mcp_error"
                  /\ HasKey(Unwrap(resp[r]).error, "exit_code")
                  /\ Unwrap(Unwrap(resp[r]).error.data).exit_code = -1
            /\ ReturnedResult(r) =>
                  LET res == Unwrap(ret[r]).val
                      out == Unwrap(LastCmd(r).output)
                  IN  /\ IsSome(res.stdout) <=> out.stdout # <<>>
                      /\ IsSome(res.stderr) <=> out.stderr # <<>>
                      /\ res.stdout # Some(<<>>)
                      /\ res.stderr # Some(<<>>)

---------------------------------------------------------------------------
(* C30 *)

\* the backend call of the request returned an error
BackendFailed(r) == IsSome(ret[r]) /\ ~Unwrap(ret[r]).ok

\* the message holds the pieces of the other message, in order and adjacent
Quotes(message, inner) ==
    \E i \in 0..(Len(message) - Len(inner)) :
        SubSeq(message, i + 1, i + Len(inner)) = inner

\* C30: for install_package_with_version the response to a backend error is
\* that error itself, with its code, message and payload, so the caller
\* sees validation_error, package_not_found and version_not_found as the
\* backend made them; for the other four operations the response to a
\* backend error is a new error of type system_error that quotes the
\* backend's message.  No response to install_package_with_version has the
\* error type system_error.
C30_ErrorPassThrough ==
    \A r \in Reqs :
        (pc[r] = "done" /\ request[r].name \in ToolNames) =>
            /\ (BackendFailed(r) /\ IsVersionInstall(r)) =>
                  resp[r] = Some(ToolFailure(Unwrap(ret[r]).err))
            /\ (BackendFailed(r) /\ ~IsVersionInstall(r)) =>
                  /\ Unwrap(resp[r]).kind = "mcp_error"
                  /\ Unwrap(resp[r]).error.code = "internal_error"
                  /\ ErrorType(Unwrap(resp[r]).error) = "system_error"
                  /\ Unwrap(resp[r]).error # Unwrap(ret[r]).err
                  /\ Quotes(Unwrap(resp[r]).error.message, Unwrap(ret[r]).err.message)
            /\ (IsVersionInstall(r) /\ Unwrap(resp[r]).kind = "mcp_error") =>
                  ErrorType(Unwrap(resp[r]).error) # "system_error"

\* package_not_found has reached the caller of install_package_with_version
\* as the backend made it
C30_Witness ==
    \E r \in Reqs :
        /\ pc[r] = "done"
        /\ IsVersionInstall(r)
        /\ ReturnedError(r, "package_not_found")
        /\ Unwrap(resp[r]).kind = "mcp_error"
        /\ Unwrap(resp[r]).error = Unwrap(ret[r]).err
        /\ HasKey(Unwrap(resp[r]).error, "searched_repositories")

============================================================================
